---- MODULE Spec2Model ----
(***************************************************************************)
(* A model of videotextcut.  The first part models progress_tracker.py:    *)
(* the ProgressTracker registry, its lock, and the threads that            *)
(* _notify_callbacks starts for the registered callbacks.  The second part *)
(* models models.py (the transcript, its edits and its active time ranges) *)
(* and filler_detector.py (the filler decision per segment).  The third   *)
(* part models the measures taken of a transcript (get_filler_statistics,  *)
(* estimate_output_duration, calculate_compression_ratio) and              *)
(* video_service.py's trim_video_by_transcript, stage by stage, with the   *)
(* progress monitor thread of _write_video_with_progress.  The last part   *)
(* models the transcript editor of gui.py (display_transcript and          *)
(* auto_save_transcript) and detect_empty_spots of filler_detector.py.     *)
(***************************************************************************)
EXTENDS Integers, Sequences, FiniteSets, Bags, TLC

(*************************** bounds of the model ***************************)
\* the number of tracker calls the callers make in one behaviour
MaxCalls == 4
\* time.time() runs from 1 to MaxTime
MaxTime == 2
\* the number of callback threads alive at the same time
MaxThreads == 2
\* the number of callbacks registered under one operation id
MaxCallbacks == 2
\* the tracker calls of a behaviour of FairSpec
MaxCallsLive == 3
\* the segments of a transcript
MaxSegments == 3
\* the segments of a transcript under edit
MaxEditSegments == 2
\* the lines of an edited text
MaxLines == 3
\* the words of a segment and of its edited text
MaxWords == 3
\* the custom patterns added to a detector
MaxCustomPatterns == 2
\* the segments of a transcript that is measured
MaxMeasured == 3
\* the segments of a transcript that is trimmed
MaxTrimSegments == 2
\* the segments of a transcript in the editor
MaxEditorSegments == 2
\* the segments of a transcript searched for silence
MaxSilenceSegments == 3
\* the ranges given to the fast trim
MaxCutRanges == 3

(******************************* values ************************************)
\* Optional[...]: None is the empty set, a value x is {x}
None == {}
Some(x) == {x}
The(s) == CHOOSE x \in s : TRUE

\* OperationStatus (PENDING is declared and never assigned)
RUNNING == "running"
COMPLETED == "completed"
FAILED == "failed"
CANCELLED == "cancelled"

\* the inputs of the calls
Ids == {"a", "b"}
TotalStepsArgs == {0, 2}
\* update_progress(id, progress_percent, current_step, current_step_number):
\* a percent above and below the range, a step number that derives a
\* percent, and a step number beside an explicit percent
UpdateArgs ==
  {<<Some(150), None, None>>, <<Some(-10), Some("s"), None>>,
   <<None, None, Some(3)>>, <<Some(50), None, Some(1)>>}
ResultArgs == {Some("r")}
ErrorArgs == {"e"}
MaxAgeArgs == {0, 1}
\* what a registered callback does: call get_progress on the tracker and
\* return, or never return
Callbacks == {"reentrant", "hanging"}

VARIABLES
  operations,            \* self._operations: operation id -> ProgressInfo
  callbacks,             \* self._callbacks: operation id -> list of callbacks
  cancelled_operations,  \* self._cancelled_operations
  lock,                  \* self._lock: "free", "main" or "thread"
  now,                   \* time.time()
  pc,                    \* the calling thread: "idle", "locked", "cleanup"
  local,                 \* cleanup's current_time and max_age_seconds
  threads,               \* the threads started by _notify_callbacks
  budget,                \* the calls the callers may still make
  calls,                 \* history: the number of calls made
  last,                  \* history: the last call and what it returned
  phase,                 \* history: per id, its starts and cancels
  segments,              \* TranscriptData.segments
  filler_patterns,       \* FillerWordDetector.filler_patterns
  done,                  \* history: the last transcript call, what it was
                         \* given and what it returned
  transcript_duration,   \* TranscriptData.duration
  config,                \* VideoService.config
  progress_callback,     \* trim: whether a progress callback is given
  cancelled,             \* ProgressDialog.cancelled
  trim_pc,               \* trim: where trim_video_by_transcript is
  trim_local,            \* trim: its local variables
  media,                 \* trim: the clips, the files and the directory
  outcome,               \* trim: what the call returned or raised
  trail,                 \* history: what trim did, in order
  cancel_at              \* history: the length of trail at the cancel

vars == <<operations, callbacks, cancelled_operations, lock, now, pc, local,
          threads, budget, calls, last, phase, segments, filler_patterns, done,
          transcript_duration, config, progress_callback, cancelled, trim_pc,
          trim_local, media, outcome, trail, cancel_at>>

\* the variables of the second part
transcript == <<segments, filler_patterns, done, transcript_duration>>

tracker == <<operations, callbacks, cancelled_operations>>

\* the variables of the trim pipeline
pipeline == <<config, progress_callback, cancelled, trim_pc, trim_local, media,
              outcome, trail, cancel_at>>

(***************************** ProgressInfo ********************************)
ProgressInfo(total_steps, description, t) ==
  [status |-> RUNNING, progress_percent |-> 0, current_step |-> description,
   total_steps |-> total_steps, current_step_number |-> 0, start_time |-> t,
   end_time |-> None, error_message |-> None, result |-> None]

Max(x, y) == IF x >= y THEN x ELSE y
Min(x, y) == IF x <= y THEN x ELSE y

\* max(0, min(100, progress_percent))
Clamp(p) == Max(0, Min(100, p))

\* (current_step_number / total_steps) * 100; TotalStepsArgs divide 100, so
\* the quotient is exact
Derived(n, total) == (n * 100) \div total

get_progress(id) == IF id \in DOMAIN operations THEN Some(operations[id]) ELSE None

is_cancelled(id) == id \in cancelled_operations

(************************* _notify_callbacks *******************************)
\* a thread started for callback cb of operation id: "started", then
\* "running" its callback, "locked" inside get_progress; `under` says that
\* the call that started the thread still holds the lock
Thread(id, cb, at, under) == [id |-> id, cb |-> cb, pc |-> at, under |-> under]

\* threading.Thread(target=callback, ...).start() for each callback of the
\* list, in order
RECURSIVE StartThreads(_, _, _)
StartThreads(w, id, cbs) ==
  IF cbs = <<>> THEN w
  ELSE StartThreads(w (+) SetToBag({Thread(id, Head(cbs), "started", TRUE)}),
                    id, Tail(cbs))

\* variant: only the first callback of the list is notified
NotifyFirstOnly(id) ==
  StartThreads(threads, id,
               IF callbacks[id] = <<>> THEN <<>> ELSE <<Head(callbacks[id])>>)

\* callbacks = self._callbacks.get(operation_id, [])
notify_callbacks(id) == StartThreads(threads, id, callbacks[id])

\* the model's cap: a call that notifies needs room for each thread
CanNotify(id) == BagCardinality(threads) + Len(callbacks[id]) <= MaxThreads

(******************************* the lock **********************************)
True == "True"
False == "False"
Void == "None"

\* `with self._lock:` entered by the calling thread
Acquire == pc = "idle" /\ lock = "free" /\ budget > 0

\* the lock is held from here to Release; the history records the call
Called(op, id, ret, args) ==
  /\ lock' = "main"
  /\ pc' = "locked"
  /\ budget' = budget - 1
  /\ calls' = calls + 1
  /\ last' = [op |-> op, id |-> id, ret |-> ret, args |-> args]
  /\ UNCHANGED <<now, transcript, pipeline>>

Put(ops, id, info) ==
  [i \in DOMAIN ops \cup {id} |-> IF i = id THEN info ELSE ops[i]]

(***************************** the operations ******************************)
\* variant: start_operation without the discard of line 82
StartKeepsFlag(id) == cancelled_operations

\* line 82: self._cancelled_operations.discard(operation_id)
StartClears(id) == cancelled_operations \ {id}

start_operation(id, total_steps, description) ==
  /\ Acquire
  /\ CanNotify(id)
  /\ operations' = Put(operations, id, ProgressInfo(total_steps, description, now))
  /\ cancelled_operations' = StartClears(id)
  /\ threads' = notify_callbacks(id)
  /\ Called("start", id, "ProgressInfo", <<total_steps, description>>)
  /\ phase' = [phase EXCEPT ![id] = IF @ = "cancelled" THEN "restarted" ELSE "started"]
  /\ UNCHANGED <<callbacks, local>>

\* variant: the rejecting branch without the write of line 107
UpdateCancelledKeepsStatus(id) == operations

\* lines 106-108: the id is in _cancelled_operations
UpdateCancelled(id) == [operations EXCEPT ![id].status = CANCELLED]

\* lines 110-122
UpdateApplied(info, progress_percent, current_step, current_step_number) ==
  LET a == IF progress_percent # None
           THEN [info EXCEPT !.progress_percent = Clamp(The(progress_percent))]
           ELSE info
      b == IF current_step # None
           THEN [a EXCEPT !.current_step = The(current_step)]
           ELSE a
      c == IF current_step_number # None
           THEN [b EXCEPT !.current_step_number = The(current_step_number)]
           ELSE b
  IN IF current_step_number # None /\ c.total_steps > 0 /\ progress_percent = None
     THEN [c EXCEPT !.progress_percent = Derived(The(current_step_number), c.total_steps)]
     ELSE c

update_progress(id, progress_percent, current_step, current_step_number) ==
  /\ Acquire
  /\ LET args == <<progress_percent, current_step, current_step_number>> IN
     IF id \notin DOMAIN operations
     THEN /\ Called("update", id, False, args)
          /\ UNCHANGED <<operations, threads>>
     ELSE IF id \in cancelled_operations
     THEN /\ operations' = UpdateCancelled(id)
          /\ Called("update", id, False, args)
          /\ UNCHANGED threads
     ELSE /\ CanNotify(id)
          /\ operations' = [operations EXCEPT ![id] =
               UpdateApplied(@, progress_percent, current_step, current_step_number)]
          /\ threads' = notify_callbacks(id)
          /\ Called("update", id, True, args)
  /\ UNCHANGED <<callbacks, cancelled_operations, local, phase>>

\* variant: complete_operation without line 142
CompletedKeepsPercent(info, result, t) ==
  [info EXCEPT !.status = COMPLETED, !.end_time = Some(t), !.result = result]

\* lines 140-144
Completed(info, result, t) ==
  [info EXCEPT !.status = COMPLETED, !.progress_percent = 100,
               !.end_time = Some(t), !.result = result]

complete_operation(id, result) ==
  /\ Acquire
  /\ IF id \notin DOMAIN operations
     THEN UNCHANGED <<operations, threads>>
     ELSE /\ CanNotify(id)
          /\ operations' = [operations EXCEPT ![id] = Completed(@, result, now)]
          /\ threads' = notify_callbacks(id)
  /\ Called("complete", id, Void, <<result>>)
  /\ UNCHANGED <<callbacks, cancelled_operations, local, phase>>

\* lines 160-163
Failed(info, error_message, t) ==
  [info EXCEPT !.status = FAILED, !.end_time = Some(t),
               !.error_message = Some(error_message)]

fail_operation(id, error_message) ==
  /\ Acquire
  /\ IF id \notin DOMAIN operations
     THEN UNCHANGED <<operations, threads>>
     ELSE /\ CanNotify(id)
          /\ operations' = [operations EXCEPT ![id] = Failed(@, error_message, now)]
          /\ threads' = notify_callbacks(id)
  /\ Called("fail", id, Void, <<error_message>>)
  /\ UNCHANGED <<callbacks, cancelled_operations, local, phase>>

\* variant: cancel_operation without the check of lines 183-184
CancelRejectedUnknownOnly(id) == id \notin DOMAIN operations

\* lines 178-184: the cases in which cancel_operation returns False
CancelRejected(id) ==
  \/ id \notin DOMAIN operations
  \/ operations[id].status \in {COMPLETED, FAILED}

cancel_operation(id) ==
  /\ Acquire
  /\ IF CancelRejected(id)
     THEN /\ Called("cancel", id, False, <<>>)
          /\ UNCHANGED <<operations, cancelled_operations, threads, phase>>
     ELSE /\ CanNotify(id)
          /\ cancelled_operations' = cancelled_operations \cup {id}
          /\ operations' = [operations EXCEPT ![id].status = CANCELLED,
                                              ![id].end_time = Some(now)]
          /\ threads' = notify_callbacks(id)
          /\ Called("cancel", id, True, <<>>)
          /\ phase' = [phase EXCEPT ![id] = "cancelled"]
  /\ UNCHANGED <<callbacks, local>>

add_callback(id, cb) ==
  /\ Acquire
  /\ Len(callbacks[id]) < MaxCallbacks
  /\ callbacks' = [callbacks EXCEPT ![id] = Append(@, cb)]
  /\ Called("add_callback", id, Void, <<cb>>)
  /\ UNCHANGED <<operations, cancelled_operations, threads, local, phase>>

(******************************** cleanup **********************************)
NoLocal == [current_time |-> 0, max_age_seconds |-> 0]

\* line 271: current_time = time.time(), read before the lock is taken
cleanup_completed_operations(max_age_seconds) ==
  /\ pc = "idle"
  /\ budget > 0
  /\ pc' = "cleanup"
  /\ local' = [current_time |-> now, max_age_seconds |-> max_age_seconds]
  /\ UNCHANGED <<tracker, lock, now, threads, budget, calls, last, phase, transcript,
                 pipeline>>

\* variant: line 279 with >= for >
ToRemoveAtLeast(current_time, max_age_seconds) ==
  {id \in DOMAIN operations :
     /\ operations[id].status \in {COMPLETED, FAILED, CANCELLED}
     /\ operations[id].end_time # None
     /\ current_time - The(operations[id].end_time) >= max_age_seconds}

\* lines 276-280: operations_to_remove
ToRemove(current_time, max_age_seconds) ==
  {id \in DOMAIN operations :
     /\ operations[id].status \in {COMPLETED, FAILED, CANCELLED}
     /\ operations[id].end_time # None
     /\ current_time - The(operations[id].end_time) > max_age_seconds}

\* lines 273-285
cleanup_locked ==
  /\ pc = "cleanup"
  /\ lock = "free"
  /\ LET gone == ToRemove(local.current_time, local.max_age_seconds) IN
     /\ operations' = [i \in DOMAIN operations \ gone |-> operations[i]]
     /\ callbacks' = [i \in Ids |-> IF i \in gone THEN <<>> ELSE callbacks[i]]
     /\ cancelled_operations' = cancelled_operations \ gone
  /\ Called("cleanup", "*", Void, <<local.current_time, local.max_age_seconds>>)
  /\ local' = NoLocal
  /\ UNCHANGED <<threads, phase>>

(*********************** leaving `with self._lock:` ************************)
\* variant: the call joins the callback threads before it leaves the block
ReleaseAfterJoin == pc = "locked" /\ threads = EmptyBag

\* the calling thread leaves the block as soon as its body is done
ReleaseEnabled == pc = "locked"

\* the threads of the call that returns are no longer under its lock
ClearUnder(w) ==
  LET S == {[t EXCEPT !.under = FALSE] : t \in BagToSet(w)}
  IN [t \in S |-> CopiesIn(t, w) + CopiesIn([t EXCEPT !.under = TRUE], w)]

Release ==
  /\ ReleaseEnabled
  /\ lock' = "free"
  /\ pc' = "idle"
  /\ threads' = ClearUnder(threads)
  /\ UNCHANGED <<tracker, now, local, budget, calls, last, phase, transcript,
                 pipeline>>

(************************** the callback threads ***************************)
Move(w, t, u) == (w (-) SetToBag({t})) (+) SetToBag({u})

\* the thread started by _notify_callbacks begins to run its callback
ThreadRun(t) ==
  /\ t.pc = "started"
  /\ threads' = Move(threads, t, [t EXCEPT !.pc = "running"])
  /\ UNCHANGED <<tracker, lock, now, pc, local, budget, calls, last, phase, transcript,
                 pipeline>>

\* a callback that calls get_progress: `with self._lock:` (lines 204-205)
ThreadAcquire(t) ==
  /\ t.pc = "running"
  /\ t.cb = "reentrant"
  /\ lock = "free"
  /\ lock' = "thread"
  /\ threads' = Move(threads, t, [t EXCEPT !.pc = "locked"])
  /\ UNCHANGED <<tracker, now, pc, local, budget, calls, last, phase, transcript,
                 pipeline>>

\* get_progress returns, and the callback after it: the thread ends
ThreadRelease(t) ==
  /\ t.pc = "locked"
  /\ lock' = "free"
  /\ threads' = threads (-) SetToBag({t})
  /\ UNCHANGED <<tracker, now, pc, local, budget, calls, last, phase, transcript,
                 pipeline>>

\* time passes; only the calls read the time, so a tick inside a call is a
\* tick after it
Tick ==
  /\ pc = "idle"
  /\ now < MaxTime
  /\ now' = now + 1
  /\ UNCHANGED <<tracker, lock, pc, local, threads, budget, calls, last, phase, transcript,
                 pipeline>>

(***************************** models.py ***********************************)
\* Times are in hundredths of a second.  A text is the sequence of its
\* whitespace-separated words, so str.split, str.strip and ' '.join are
\* the structure of the sequence; the empty sequence is a blank text.

\* line 190: the gap tolerance of the merge, 0.1 s
GapTolerance == 10
\* line 147: the tolerance of a timestamp marker, 0.1 s
MarkerTolerance == 10

\* str.lower on the words of the model
Lower(w) == IF w = "So" THEN "so" ELSE w
LowerAll(ws) == [k \in DOMAIN ws |-> Lower(ws[k])]

WordTiming(word, start_time, end_time) ==
  [word |-> word, start_time |-> start_time, end_time |-> end_time]

TranscriptSegment(start_time, end_time, text, is_filler, confidence, word_timings) ==
  [start_time |-> start_time, end_time |-> end_time, text |-> text,
   is_filler |-> is_filler, is_deleted |-> FALSE, confidence |-> confidence,
   word_timings |-> word_timings]

duration(self) == self.end_time - self.start_time

SetMin(S) == CHOOSE x \in S : \A y \in S : x <= y

\* list.index(word, start) with indices from 0; None is the ValueError
Index(ws, word, start) ==
  LET hits == {k \in start .. Len(ws) - 1 : ws[k + 1] = word}
  IN IF hits = {} THEN None ELSE Some(SetMin(hits))

\* variant: the search for the anchor starts at index 0 of the original
AnchorFromZero(i, original_words) == 0

\* line 51: the search starts at the index i of the edited word
AnchorFrom(i, original_words) == IF i < Len(original_words) THEN i ELSE 0

\* lines 54-60: the run that starts at the anchor; <<end_idx, j>>
RECURSIVE Extend(_, _, _, _)
Extend(edited_words, original_words, end_idx, j) ==
  IF /\ j < Len(edited_words)
     /\ end_idx + 1 < Len(original_words)
     /\ edited_words[j + 1] = original_words[end_idx + 2]
  THEN Extend(edited_words, original_words, end_idx + 1, j + 1)
  ELSE <<end_idx, j>>

\* lines 46-71: the runs <<start_idx, end_idx>> of original words
RECURSIVE WordRuns(_, _, _)
WordRuns(edited_words, original_words, i) ==
  IF i >= Len(edited_words) THEN <<>>
  ELSE LET start_idx == Index(original_words, edited_words[i + 1],
                              AnchorFrom(i, original_words))
       IN IF start_idx = None
          THEN WordRuns(edited_words, original_words, i + 1)
          ELSE LET run == Extend(edited_words, original_words,
                                 The(start_idx), i + 1)
               IN <<<<The(start_idx), run[1]>>>>
                    \o WordRuns(edited_words, original_words, run[2])

\* `a in b` on texts whose words do not contain one another: a is a run of
\* the words of b
Contains(b, a) ==
  \E k \in 0 .. Len(b) - Len(a) : \A m \in 1 .. Len(a) : b[k + m] = a[m]

OriginalWords(self) ==
  [k \in DOMAIN self.word_timings |-> Lower(self.word_timings[k].word)]

get_active_word_ranges(self, edited_text) ==
  IF self.word_timings = <<>>
  THEN IF Contains(LowerAll(self.text), LowerAll(edited_text))
       THEN <<<<self.start_time, self.end_time>>>>
       ELSE <<>>
  ELSE LET runs == WordRuns(LowerAll(edited_text), OriginalWords(self), 0)
       IN [k \in DOMAIN runs |->
            <<self.word_timings[runs[k][1] + 1].start_time,
              self.word_timings[runs[k][2] + 1].end_time>>]

\* the call returns; the history records it.  The progress tracker is not
\* touched by the transcript.
Returns(op, args, ret) ==
  /\ done' = [op |-> op, args |-> args, ret |-> ret]
  /\ UNCHANGED <<tracker, lock, now, pc, local, threads, budget, calls, last,
                 phase, transcript_duration, pipeline>>

\* lines 85-87
get_active_segments == SelectSeq(segments, LAMBDA seg : ~seg.is_deleted)

\* lines 95-99
remove_filler_segments ==
  /\ segments' = [k \in DOMAIN segments |->
                    IF segments[k].is_filler
                    THEN [segments[k] EXCEPT !.is_deleted = TRUE]
                    ELSE segments[k]]
  /\ Returns("remove_filler_segments", <<>>, Void)
  /\ UNCHANGED filler_patterns

(* update_from_text.  A line of the edited text is a record: marker says  *)
(* that the line starts with '[', ends with ']' and contains 's -' (line   *)
(* 127); time is what float() makes of the part before 's -', None for a   *)
(* ValueError (lines 140-142); words are the words of a line of text.      *)
Marker(t) == [marker |-> TRUE, time |-> Some(t), words |-> <<>>]
BadMarker == [marker |-> TRUE, time |-> None, words |-> <<>>]
Text(ws) == [marker |-> FALSE, time |-> None, words |-> ws]

\* line 115: the lines that are not blank
NonBlank(edited_text) ==
  SelectSeq(edited_text, LAMBDA line : line.marker \/ line.words # <<>>)

\* lines 118-119
ResetDeleted(segs) == [k \in DOMAIN segs |-> [segs[k] EXCEPT !.is_deleted = FALSE]]

\* ' '.join(segment_text_parts).strip()
RECURSIVE Join(_)
Join(parts) == IF parts = <<>> THEN <<>> ELSE Head(parts) \o Join(Tail(parts))

Abs(x) == IF x < 0 THEN -x ELSE x

\* lines 145-150: the first segment within the tolerance, 0 for None
Matching(segs, start_time) ==
  LET hits == {k \in DOMAIN segs :
                 Abs(segs[k].start_time - start_time) < MarkerTolerance}
  IN IF hits = {} THEN 0 ELSE SetMin(hits)

\* lines 129-136 and 160-165: current_segment is an index, 0 for None
ProcessSegment(segs, current_segment, segment_text_parts) ==
  IF current_segment # 0 /\ segment_text_parts # <<>>
  THEN LET edited_segment_text == Join(segment_text_parts)
       IN IF edited_segment_text = <<>>
          THEN [segs EXCEPT ![current_segment].is_deleted = TRUE]
          ELSE [segs EXCEPT ![current_segment].text = edited_segment_text]
  ELSE segs

\* lines 125-165
RECURSIVE ParseLines(_, _, _, _)
ParseLines(segs, current_segment, segment_text_parts, lines) ==
  IF lines = <<>>
  THEN ProcessSegment(segs, current_segment, segment_text_parts)
  ELSE LET line == Head(lines) IN
       IF line.marker
       THEN LET processed ==
                  ProcessSegment(segs, current_segment, segment_text_parts)
            IN IF line.time = None
               THEN ParseLines(processed, 0, <<>>, Tail(lines))
               ELSE LET found == Matching(processed, The(line.time))
                    IN ParseLines(processed, found,
                                  IF found # 0 THEN <<>> ELSE segment_text_parts,
                                  Tail(lines))
       ELSE ParseLines(segs, current_segment,
                       IF current_segment # 0
                       THEN Append(segment_text_parts, line.words)
                       ELSE segment_text_parts,
                       Tail(lines))

update_from_text(edited_text) ==
  /\ segments' = ParseLines(ResetDeleted(segments), 0, <<>>, NonBlank(edited_text))
  /\ Returns("update_from_text", edited_text, Void)
  /\ UNCHANGED filler_patterns

(* get_active_time_ranges *)
\* lines 171-179
RECURSIVE Collect(_)
Collect(segs) ==
  IF segs = <<>> THEN <<>>
  ELSE LET segment == Head(segs) IN
       (IF segment.is_deleted THEN <<>>
        ELSE IF segment.word_timings # <<>>
             THEN get_active_word_ranges(segment, segment.text)
             ELSE <<<<segment.start_time, segment.end_time>>>>)
       \o Collect(Tail(segs))

\* the order of tuples
Before(a, b) == a[1] < b[1] \/ (a[1] = b[1] /\ a[2] <= b[2])

RECURSIVE Insert(_, _)
Insert(r, sorted) ==
  IF sorted = <<>> THEN <<r>>
  ELSE IF Before(r, Head(sorted)) THEN <<r>> \o sorted
       ELSE <<Head(sorted)>> \o Insert(r, Tail(sorted))

\* variant: line 185 left out
Unsorted(active_ranges) == active_ranges

\* line 185: active_ranges.sort()
RECURSIVE Sort(_)
Sort(active_ranges) ==
  IF active_ranges = <<>> THEN <<>>
  ELSE Insert(Head(active_ranges), Sort(Tail(active_ranges)))

\* variant: line 190 with < for <=
JoinsBelow(start, last_end) == start < last_end + GapTolerance

\* line 190
Joins(start, last_end) == start <= last_end + GapTolerance

\* lines 188-193
RECURSIVE MergeInto(_, _)
MergeInto(merged_ranges, rest) ==
  IF rest = <<>> THEN merged_ranges
  ELSE LET start == Head(rest)[1]
           end == Head(rest)[2]
           last_start == merged_ranges[Len(merged_ranges)][1]
           last_end == merged_ranges[Len(merged_ranges)][2]
       IN IF Joins(start, last_end)
          THEN MergeInto([merged_ranges EXCEPT ![Len(merged_ranges)] =
                            <<last_start, Max(last_end, end)>>], Tail(rest))
          ELSE MergeInto(Append(merged_ranges, Head(rest)), Tail(rest))

\* lines 181-195
merged(active_ranges) ==
  IF active_ranges = <<>> THEN <<>>
  ELSE LET sorted == Sort(active_ranges)
       IN MergeInto(<<Head(sorted)>>, Tail(sorted))

get_active_time_ranges ==
  /\ Returns("get_active_time_ranges", <<>>, merged(Collect(segments)))
  /\ UNCHANGED <<segments, filler_patterns>>

\* get_active_word_ranges of segment k (from 1) for an edited text
word_ranges(k, edited_text) ==
  /\ Returns("get_active_word_ranges", <<k, edited_text>>,
             get_active_word_ranges(segments[k], edited_text))
  /\ UNCHANGED <<segments, filler_patterns>>

(*************************** filler_detector.py ****************************)
\* Confidences are in hundredths.  The texts of the model are made of the
\* words of Vocabulary and of the sample transcript of the tests; a regular expression is modelled by the words and
\* the pairs of adjacent words of the normalized vocabulary it matches.
Vocabulary == {"um", "oh", "the", "Basically", "..."}

\* line 24: min_segment_duration, 0.3 s
min_segment_duration == 30
\* line 119: the confidence below which a segment is filler, 0.3
LowConfidence == 30
\* line 98: the confidence threshold of a custom pattern, 0.8
CustomThreshold == 80

FillerPattern(pattern, confidence_threshold, context_sensitive) ==
  [pattern |-> pattern, confidence_threshold |-> confidence_threshold,
   context_sensitive |-> context_sensitive]

\* lines 28-66: _initialize_filler_patterns; the escaped asterisks of line
\* 64 are written [*]
BuiltinPatterns ==
  <<FillerPattern("\\buh+\\b", 90, FALSE),
    FillerPattern("\\bum+\\b", 90, FALSE),
    FillerPattern("\\buhmm?\\b", 90, FALSE),
    FillerPattern("\\buhh+\\b", 90, FALSE),
    FillerPattern("\\bah+\\b", 80, TRUE),
    FillerPattern("\\boh+\\b", 70, TRUE),
    FillerPattern("\\beh+\\b", 80, FALSE),
    FillerPattern("\\bmm+\\b", 80, FALSE),
    FillerPattern("\\bhmm+\\b", 80, FALSE),
    FillerPattern("\\b(like)\\s+\\1\\b", 80, TRUE),
    FillerPattern("\\b(you know)\\s+\\1\\b", 80, TRUE),
    FillerPattern("\\b(I mean)\\s+\\1\\b", 80, TRUE),
    FillerPattern("\\byou know\\b", 70, TRUE),
    FillerPattern("\\bi mean\\b", 70, TRUE),
    FillerPattern("\\blike\\b(?!\\s+(this|that|it|he|she|they|we|I))", 60, TRUE),
    FillerPattern("\\bso\\b(?=\\s+(uh|um|like|you know))", 70, TRUE),
    FillerPattern("\\bwell\\b(?=\\s*(uh|um|like))", 70, TRUE),
    FillerPattern("\\b(\\w)\\1{2,}\\b", 80, FALSE),
    FillerPattern("\\b(\\w+)\\s+\\1\\b", 80, TRUE),
    FillerPattern("\\bI\\s+I\\b", 80, FALSE),
    FillerPattern("\\bthe\\s+the\\b", 80, FALSE),
    FillerPattern("\\band\\s+and\\b", 80, FALSE),
    FillerPattern("\\b[*][^*]*[*]\\b", 90, FALSE),
    FillerPattern("\\[.*?\\]", 90, FALSE)>>

\* str.lower on the words of the vocabulary
LowerWord(w) ==
  CASE w = "Basically" -> "basically" [] w = "Hello" -> "hello" [] OTHER -> w

\* variant: a custom pattern that applies at every confidence
custom_pattern_unconditional(word) ==
  FillerPattern("\\b" \o LowerWord(word) \o "\\b", 0, FALSE)

\* lines 93-101: re.escape leaves the letters of a word as they are
custom_pattern(word) ==
  FillerPattern("\\b" \o LowerWord(word) \o "\\b", CustomThreshold, FALSE)

\* lines 91-103
RECURSIVE add_custom_patterns(_, _)
add_custom_patterns(patterns, custom_words) ==
  IF custom_words = <<>> THEN patterns
  ELSE add_custom_patterns(Append(patterns, custom_pattern(Head(custom_words))),
                           Tail(custom_words))

\* lines 146-152: lower case; the words of the vocabulary hold no
\* punctuation between word characters, so line 152 removes nothing
normalize_text(text) == [k \in DOMAIN text |-> LowerWord(text[k])]

\* the word characters and the characters of a normalized word
IsWord(w) == w # "..."
Alpha(w) ==
  CASE w = "um" -> 2 [] w = "oh" -> 2 [] w = "the" -> 3
    [] w = "basically" -> 9
    [] w \in {"uh", "to", "we"} -> 2
    [] w \in {"you", "and"} -> 3
    [] w \in {"this", "will", "know"} -> 4
    [] w \in {"hello", "video", "today"} -> 5
    [] w \in {"welcome", "discuss", "machine"} -> 7
    [] w \in {"everyone", "learning"} -> 8
    [] w = "artificial" -> 10
    [] w = "intelligence" -> 12
    [] OTHER -> 0
Chars(w) == IF w = "..." THEN 3 ELSE Alpha(w)

\* the normalized words that a one-word expression matches
MatchedWords(pattern) ==
  CASE pattern = "\\bum+\\b" -> {"um"}
    [] pattern = "\\buh+\\b" -> {"uh"}
    [] pattern = "\\boh+\\b" -> {"oh"}
    [] pattern = "\\bbasically\\b" -> {"basically"}
    [] OTHER -> {}

\* the pairs of adjacent normalized words that a two-word expression matches
MatchedPairs(pattern) ==
  CASE pattern = "\\b(\\w+)\\s+\\1\\b" ->
         {<<LowerWord(w), LowerWord(w)>> : w \in {v \in Vocabulary : IsWord(v)}}
    [] pattern = "\\bthe\\s+the\\b" -> {<<"the", "the">>}
    [] pattern = "\\byou know\\b" -> {<<"you", "know">>}
    [] OTHER -> {}

\* line 173: re.search, the leftmost match as <<first word, last word>>,
\* None for no match
search(pattern, text) ==
  LET one == {<<k, k>> : k \in {j \in DOMAIN text : text[j] \in MatchedWords(pattern)}}
      two == {<<k, k + 1>> : k \in {j \in 1 .. Len(text) - 1 :
                                      <<text[j], text[j + 1]>> \in MatchedPairs(pattern)}}
      hits == one \cup two
  IN IF hits = {} THEN None
     ELSE Some(CHOOSE h \in hits : \A g \in hits : h[1] <= g[1])

\* `"like" in pattern.pattern` and `"you know" in pattern.pattern`
HasLike(pattern) ==
  pattern \in {"\\b(like)\\s+\\1\\b",
               "\\blike\\b(?!\\s+(this|that|it|he|she|they|we|I))",
               "\\bso\\b(?=\\s+(uh|um|like|you know))",
               "\\bwell\\b(?=\\s*(uh|um|like))"}
HasYouKnow(pattern) ==
  pattern \in {"\\b(you know)\\s+\\1\\b", "\\byou know\\b",
               "\\bso\\b(?=\\s+(uh|um|like|you know))"}

\* lines 223-242
validate_like_context(text, match) ==
  \/ match[1] = 1
  \/ match[2] < Len(text) /\ text[match[2] + 1] \in {"uh", "um", "you", "i"}
  \/ Len(text) <= 2

\* lines 259-270
validate_you_know_context(text, match) ==
  \/ Len(text) - match[2] <= 1
  \/ Len(text) <= 4

\* line 283
validate_exclamation_context(text, match) == Len(text) <= 2

\* lines 195-210
validate_context(text, match, pattern) ==
  IF HasLike(pattern.pattern) THEN validate_like_context(text, match)
  ELSE IF HasYouKnow(pattern.pattern) THEN validate_you_know_context(text, match)
  ELSE IF pattern.pattern \in {"\\bah+\\b", "\\boh+\\b"}
       THEN validate_exclamation_context(text, match)
  ELSE Len(text) <= 3

\* lines 168-181
matches_pattern(text, pattern, segment) ==
  IF segment.confidence < pattern.confidence_threshold THEN FALSE
  ELSE LET match == search(pattern.pattern, text)
       IN IF match = None THEN FALSE
          ELSE IF pattern.context_sensitive
               THEN validate_context(text, The(match), pattern)
               ELSE TRUE

\* lines 295-302
is_mostly_non_speech(text) ==
  LET Sum[k \in 0 .. Len(text)] ==
        IF k = 0 THEN <<0, 0>>
        ELSE <<Sum[k - 1][1] + Alpha(text[k]), Sum[k - 1][2] + Chars(text[k])>>
      alpha_chars == Sum[Len(text)][1]
      total_chars == Sum[Len(text)][2]
  IN IF total_chars = 0 THEN TRUE ELSE 2 * alpha_chars < total_chars

\* variant: the loop stops at the first pattern whose threshold is met and
\* whose expression matches, whatever its validator says
StopsOnTextMatch(text, pattern, segment) ==
  /\ segment.confidence >= pattern.confidence_threshold
  /\ search(pattern.pattern, text) # None

\* lines 127-128: the loop stops at the first pattern that _matches_pattern
Stops(text, pattern, segment) == matches_pattern(text, pattern, segment)

\* lines 126-128: <<what the loop returns, the patterns it evaluated>>
RECURSIVE Scan(_, _, _, _)
Scan(patterns, text, segment, k) ==
  IF k > Len(patterns) THEN <<FALSE, Len(patterns)>>
  ELSE IF Stops(text, patterns[k], segment)
       THEN <<matches_pattern(text, patterns[k], segment), k>>
       ELSE Scan(patterns, text, segment, k + 1)

\* variant: line 119 with 0 for 0.3
negative_confidence(segment) == segment.confidence < 0

\* line 119
low_confidence(segment) == segment.confidence < LowConfidence

\* line 115
empty_or_short(segment) ==
  segment.text = <<>> \/ duration(segment) < min_segment_duration

\* lines 115-134: <<the verdict, the patterns evaluated>>
is_filler_segment(patterns, segment) ==
  IF empty_or_short(segment) THEN <<TRUE, 0>>
  ELSE IF low_confidence(segment) THEN <<TRUE, 0>>
  ELSE LET normalized_text == normalize_text(segment.text)
           scan == Scan(patterns, normalized_text, segment, 1)
       IN IF scan[1] THEN scan
          ELSE <<is_mostly_non_speech(normalized_text), scan[2]>>

\* variant: line 83 flips is_filler
Toggled(segment, verdict) ==
  IF verdict THEN [segment EXCEPT !.is_filler = ~@] ELSE segment

\* lines 82-83
Flagged(segment, verdict) ==
  IF verdict THEN [segment EXCEPT !.is_filler = TRUE] ELSE segment

\* lines 78-83; the history records whether the call before this one was
\* the same call
detect_filler_words(custom_filler_words) ==
  /\ Len(filler_patterns) + Len(custom_filler_words)
       <= Len(BuiltinPatterns) + MaxCustomPatterns
  /\ filler_patterns' = add_custom_patterns(filler_patterns, custom_filler_words)
  /\ Returns("detect_filler_words",
             [custom |-> custom_filler_words,
              again |-> /\ done.op = "detect_filler_words"
                        /\ done.args.custom = custom_filler_words],
             [k \in DOMAIN segments |->
                is_filler_segment(filler_patterns', segments[k])])
  /\ segments' = [k \in DOMAIN segments |->
                    Flagged(segments[k], done'.ret[k][1])]

(* get_filler_statistics.  A quotient of the code is a fraction here, so   *)
(* that no digit of it is lost.                                            *)
Fraction(num, den) == [num |-> num, den |-> den]

\* two fractions of positive denominators: the same number, the order
Same(a, b) == a.num * b.den = b.num * a.den
AtMost(a, b) == a.num * b.den <= b.num * a.den

\* line 23: self.silence_threshold
silence_threshold == 50

RECURSIVE SumOfDurations(_)
SumOfDurations(segs) ==
  IF segs = <<>> THEN 0
  ELSE duration(Head(segs)) + SumOfDurations(Tail(segs))

\* lines 344, 347: the segments counted as filler
Fillers(segs) == SelectSeq(segs, LAMBDA s : s.is_filler)

\* variant: lines 362 and 365 without `* 100`
Share(part, whole) ==
  IF whole > 0 THEN Fraction(part, whole) ELSE Fraction(0, 1)

\* lines 362, 365: part / whole * 100, or 0
Percentage(part, whole) ==
  IF whole > 0 THEN Fraction(part * 100, whole) ELSE Fraction(0, 1)

\* lines 353-357: the first pattern whose expression is found in the text,
\* 0 for none; a pattern stands for its description
RECURSIVE FirstFound(_, _, _)
FirstFound(patterns, text, k) ==
  IF k > Len(patterns) THEN 0
  ELSE IF search(patterns[k].pattern, text) # None THEN k
       ELSE FirstFound(patterns, text, k + 1)

\* lines 350-357
filler_types(segs, patterns) ==
  LET found == [j \in DOMAIN segs |->
                  IF segs[j].is_filler
                  THEN FirstFound(patterns, normalize_text(segs[j].text), 1)
                  ELSE 0]
      count(k) == Cardinality({j \in DOMAIN segs : found[j] = k})
  IN [k \in {i \in DOMAIN patterns : count(i) > 0} |-> count(k)]

\* line 322: sorted(..., key=lambda s: s.start_time) keeps the order of
\* the segments that start together
RECURSIVE InsertByStart(_, _)
InsertByStart(s, sorted) ==
  IF sorted = <<>> THEN <<s>>
  ELSE IF s.start_time <= Head(sorted).start_time THEN <<s>> \o sorted
       ELSE <<Head(sorted)>> \o InsertByStart(s, Tail(sorted))

RECURSIVE sorted_segments(_)
sorted_segments(segs) ==
  IF segs = <<>> THEN <<>>
  ELSE InsertByStart(Head(segs), sorted_segments(Tail(segs)))

\* lines 304-332
detect_empty_spots(segs) ==
  LET sorted == sorted_segments(segs)
      gaps == [i \in 1 .. Len(sorted) - 1 |->
                 <<sorted[i].end_time, sorted[i + 1].start_time>>]
  IN SelectSeq(gaps, LAMBDA g : g[2] - g[1] >= silence_threshold)

\* lines 334-368
get_filler_statistics ==
  /\ Returns("get_filler_statistics", <<>>,
       [total_segments |-> Len(segments),
        filler_segments |-> Len(Fillers(segments)),
        filler_percentage |-> Percentage(Len(Fillers(segments)), Len(segments)),
        total_duration |-> transcript_duration,
        filler_duration |-> SumOfDurations(Fillers(segments)),
        filler_time_percentage |->
          Percentage(SumOfDurations(Fillers(segments)), transcript_duration),
        filler_types |-> filler_types(segments, filler_patterns),
        empty_spots |-> detect_empty_spots(segments)])
  /\ UNCHANGED <<segments, filler_patterns>>

(**************************** video_service.py *****************************)
\* variant: line 233 takes every segment
EveryDuration(segs) == SumOfDurations(segs)

\* lines 233-235
ActiveDuration(segs) ==
  SumOfDurations(SelectSeq(segs, LAMBDA seg : ~seg.is_deleted))

estimate_output_duration ==
  /\ Returns("estimate_output_duration", <<>>, ActiveDuration(segments))
  /\ UNCHANGED <<segments, filler_patterns>>

\* variant: line 251 returns compression_ratio
Unclamped(ratio) == ratio

\* line 251: max(0.0, min(1.0, compression_ratio))
Clamped(ratio) ==
  IF AtMost(ratio, Fraction(0, 1)) THEN Fraction(0, 1)
  ELSE IF AtMost(Fraction(1, 1), ratio) THEN Fraction(1, 1)
  ELSE ratio

\* lines 246-251
compression_ratio(segs, total) ==
  IF total <= 0 THEN Fraction(0, 1)
  ELSE Clamped(Fraction(total - ActiveDuration(segs), total))

calculate_compression_ratio ==
  /\ Returns("calculate_compression_ratio", <<>>,
             compression_ratio(segments, transcript_duration))
  /\ UNCHANGED <<segments, filler_patterns>>

(* trim_video_by_transcript.  The pipeline is a sequence of steps, each    *)
(* up to the next call that can fail: a progress callback, the opening of  *)
(* a clip, an ffmpeg process, an encode.  What the environment answers is  *)
(* chosen in the step.                                                     *)

\* models.py 198-244: AppConfig has none of the attributes that the service
\* reads; `encoding` says whether ffmpeg_preset, threads, audio_bitrate,
\* target_bitrate and crf are there
AppConfig ==
  [prefer_fast_trim |-> FALSE, prefer_gpu_encoding |-> FALSE,
   gpu_codecs |-> <<>>, encoding |-> FALSE]

\* lines 350-357
candidate_codecs ==
  (IF config.prefer_gpu_encoding THEN config.gpu_codecs ELSE <<>>)
  \o <<"libx264">>

\* what trim did: an ffmpeg process launched ("cut", "concat"), a clip built
\* ("subclip", "concatenate"), a range of the fallback that gave no clip
\* ("no clip"), a concat that exits with 0 ("succeeded"), a
\* call of _write_video_with_progress ("write"), a codec tried ("encode"),
\* its output written ("encoded"), its attempt given up with an error
\* ("failed") and its output removed ("removed")
Event(kind, range, codec) == [kind |-> kind, range |-> range, codec |-> codec]

\* the locals of trim and of the functions it calls; cut_windows are the
\* <<start, end>> of the ffmpeg cuts launched, clip_spans those of the
\* subclips built, pending the exception that waits in the finally of lines
\* 493-497
NoLocals ==
  [active_ranges |-> <<>>, idx |-> 0, prev_end |-> None, seg_paths |-> <<>>,
   last_error |-> None, fast_error |-> None, cut_windows |-> <<>>,
   clip_spans |-> <<>>, pending |-> None]
\* monitor is the event progress_active of line 413 and thread the place of
\* progress_thread in progress_monitor
NoMedia ==
  [video |-> "none", clips |-> <<>>, final_video |-> "none",
   temp_dir |-> "none", output_file |-> "absent", monitor |-> "none",
   thread |-> "none"]
Running == [result |-> "running", error |-> ""]

\* the rest of the program is not touched by trim
Trimming ==
  UNCHANGED <<tracker, lock, now, pc, local, threads, budget, calls, last,
              phase, transcript, config, progress_callback>>

\* gui.py 98-107 and 551-553: what a call of the progress callback does.
\* Without a callback nothing is called; the callback of the dialog does
\* nothing once the dialog is cancelled and can raise otherwise
Callback ==
  IF progress_callback /\ ~cancelled THEN {"ok", "raises"} ELSE {"ok"}

\* the step goes on at pc
Goto(to, m, l, events) ==
  /\ trim_pc' = to
  /\ media' = m
  /\ trim_local' = l
  /\ trail' = trail \o events
  /\ UNCHANGED <<outcome, cancelled, cancel_at>>
  /\ Trimming

\* the call ends: it returns output_path or raises
Ends(result, error, m, events) ==
  /\ trim_pc' = "done"
  /\ media' = m
  /\ outcome' = [result |-> result, error |-> error]
  /\ trail' = trail \o events
  /\ UNCHANGED <<trim_local, cancelled, cancel_at>>
  /\ Trimming

\* variant: lines 160-161 return output_path
Swallows(error, m, events) == Ends("returned", error, m, events)

\* lines 160-161: an exception inside the try becomes a RuntimeError that
\* carries it; nothing is closed on the way
Fails(error, m, events) == Ends("raised", error, m, events)

\* lines 35-42: the first callback and the validation of the paths are
\* outside the try
Validate ==
  /\ trim_pc = "called"
  /\ \E cb \in Callback, path \in {"ok", "no video", "bad output"} :
       IF cb = "raises" THEN Ends("raised", "callback", media, <<>>)
       ELSE IF path # "ok" THEN Ends("raised", path, media, <<>>)
       ELSE Goto("load", media, trim_local, <<>>)

\* lines 45-49
Load ==
  /\ trim_pc = "load"
  /\ \E cb \in Callback, clip \in {"ok", "raises"} :
       IF cb = "raises" THEN Fails("callback", media, <<>>)
       ELSE IF clip = "raises" THEN Fails("VideoFileClip", media, <<>>)
       ELSE Goto("ranges", [media EXCEPT !.video = "open"], trim_local, <<>>)

\* variant: line 57 left out
FastOrFallbackWhateverTheRanges(ranges) ==
  IF config.prefer_fast_trim THEN "fast" ELSE "clips"

\* lines 57-58 and 66: no range is an error, else the fast trim if the
\* configuration prefers it
AfterRanges(ranges) ==
  IF ranges = <<>> THEN "done"
  ELSE IF config.prefer_fast_trim THEN "fast" ELSE "clips"

\* lines 51-66
Analyze ==
  /\ trim_pc = "ranges"
  /\ \E cb \in Callback :
       LET ranges == merged(Collect(segments))
           l == [trim_local EXCEPT !.active_ranges = ranges]
       IN IF cb = "raises" THEN Fails("callback", media, <<>>)
          ELSE IF AfterRanges(ranges) = "done"
               THEN Fails("no ranges", media, <<>>)
               ELSE Goto(AfterRanges(ranges), media, l, <<>>)

(* _fast_trim_stream_copy, called inside the try of lines 67-76 *)
\* line 545: overlap_guard, 0.02 s
overlap_guard == 2

\* lines 635-640: _cleanup_fasttrim
cleanup_fasttrim(m) == [m EXCEPT !.temp_dir = "removed"]

\* line 77: the exception of the fast trim is caught
Caught(error, m, events) ==
  Goto("fast_failed", m, [trim_local EXCEPT !.fast_error = Some(error)], events)

\* lines 68-71, 507-544: the callback, the check of ffmpeg and mkdtemp
FastEnter ==
  /\ trim_pc = "fast"
  /\ \E cb \in Callback, ffmpeg \in {"ok", "missing"} :
       IF cb = "raises" THEN Caught("callback", media, <<>>)
       ELSE IF ffmpeg = "missing"
            THEN Caught("ffmpeg missing", [media EXCEPT !.output_file = "absent"], <<>>)
            ELSE Goto(IF trim_local.active_ranges = <<>> THEN "list" ELSE "cut",
                      [media EXCEPT !.output_file = "absent", !.temp_dir = "exists"],
                      [trim_local EXCEPT !.idx = 1, !.prev_end = None,
                                         !.seg_paths = <<>>,
                                         !.cut_windows = <<>>],
                      <<>>)

\* lines 547-552: the window that is cut for a range, <<start, end>>
Window(range, prev_end) ==
  LET start == Max(0, range[1])
      end == Max(start, range[2])
  IN IF prev_end # None /\ start < The(prev_end) + overlap_guard
     THEN <<Min(end, The(prev_end) + overlap_guard), end>>
     ELSE <<start, end>>

\* the loop goes to the next range, or on to the list
NextCut(l) ==
  Goto(IF l.idx > Len(l.active_ranges) THEN "list" ELSE "cut", media, l, <<>>)

\* lines 546-583: one turn of the loop
Cut ==
  /\ trim_pc = "cut"
  /\ LET idx == trim_local.idx
         w == Window(trim_local.active_ranges[idx], trim_local.prev_end)
         next == [trim_local EXCEPT !.idx = idx + 1, !.prev_end = Some(w[2])]
         cut == <<Event("cut", idx, "")>>
     IN IF w[2] - w[1] <= 0 THEN NextCut(next)
        ELSE \E cb \in Callback, run \in {"0", "nonzero", "raises"} :
               IF cb = "raises" THEN Caught("callback", media, <<>>)
               ELSE IF run = "raises" THEN Caught("cut raised", media, <<>>)
               ELSE IF run = "nonzero"
                    THEN Goto("fast_failed", cleanup_fasttrim(media),
                              [trim_local EXCEPT
                                 !.fast_error = Some("cut failed"),
                                 !.cut_windows = Append(@, w)],
                              cut)
               ELSE Goto(IF next.idx > Len(next.active_ranges)
                         THEN "list" ELSE "cut",
                         media,
                         [next EXCEPT !.seg_paths = Append(@, idx),
                                      !.cut_windows = Append(@, w)],
                         cut)

\* lines 585-601: the concat list
WriteList ==
  /\ trim_pc = "list"
  /\ IF trim_local.seg_paths = <<>>
     THEN Caught("no segments", cleanup_fasttrim(media), <<>>)
     ELSE \E file \in {"ok", "raises"} :
            IF file = "raises" THEN Caught("list raised", media, <<>>)
            ELSE Goto("concat", media, trim_local, <<>>)

\* lines 617-621: the concat with the bitstream filter
ConcatBsf ==
  /\ trim_pc = "concat"
  /\ \E cb \in Callback, run \in {"0", "nonzero", "raises"} :
       IF cb = "raises" THEN Caught("callback", media, <<>>)
       ELSE IF run = "raises" THEN Caught("concat raised", media, <<>>)
       ELSE IF run = "nonzero"
            THEN Goto("concat_retry", [media EXCEPT !.output_file = "partial"],
                      trim_local, <<Event("concat", 0, "bsf")>>)
            ELSE Goto("fast_cleanup", [media EXCEPT !.output_file = "written"],
                      trim_local, <<Event("concat", 0, "bsf"),
                                    Event("succeeded", 0, "bsf")>>)

\* lines 623-627: the concat without it
ConcatPlain ==
  /\ trim_pc = "concat_retry"
  /\ \E run \in {"0", "nonzero", "raises"} :
       IF run = "raises" THEN Caught("concat raised", media, <<>>)
       ELSE IF run = "nonzero"
            THEN Caught("concat failed", cleanup_fasttrim(media),
                        <<Event("concat", 0, "plain")>>)
            ELSE Goto("fast_cleanup", [media EXCEPT !.output_file = "written"],
                      trim_local, <<Event("concat", 0, "plain"),
                                    Event("succeeded", 0, "plain")>>)

\* lines 629-633 and 73-76: the fast trim returns and so does trim
FastFinish ==
  /\ trim_pc = "fast_cleanup"
  /\ \E written \in Callback, complete \in Callback :
       LET m == cleanup_fasttrim(media)
           closed == [m EXCEPT !.video = "closed"]
           returned == <<Event("fast trim", 0, "returned")>>
       IN IF written = "raises" THEN Caught("callback", m, <<>>)
          ELSE IF complete = "raises" THEN Caught("callback", closed, returned)
          ELSE Ends("returned", "", closed, returned)

\* lines 77-86: the fallback after the fast trim; the video is loaded again
\* if it was closed
FastFailed ==
  /\ trim_pc = "fast_failed"
  /\ \E cb \in Callback, clip \in {"ok", "raises"} :
       IF cb = "raises" THEN Fails("callback", media, <<>>)
       ELSE IF media.video = "closed" /\ clip = "raises"
            THEN Fails("VideoFileClip", media, <<>>)
            ELSE Goto("clips", [media EXCEPT !.video = "open"], trim_local,
                      <<Event("fallback", 0, "")>>)

(* the fallback: subclips, concatenation, encode *)
\* lines 89-94
ClipsEnter ==
  /\ trim_pc = "clips"
  /\ \E cb \in Callback :
       IF cb = "raises" THEN Fails("callback", media, <<>>)
       ELSE Goto("clip", [media EXCEPT !.clips = <<>>],
                 [trim_local EXCEPT !.idx = 1, !.clip_spans = <<>>], <<>>)

\* variant: the range as it is
Whole(range) == range

\* lines 99-100: the range within the video, whose duration is that of the
\* transcript
Within(range) == <<Max(0, range[1]), Min(transcript_duration, range[2])>>

\* lines 96-113: one turn of the loop.  An exception of subclip or of the
\* callback is caught at line 111 and the loop goes on
Clip ==
  /\ trim_pc = "clip"
  /\ LET idx == trim_local.idx
         r == Within(trim_local.active_ranges[idx])
         next == [trim_local EXCEPT !.idx = idx + 1]
         to == IF next.idx > Len(next.active_ranges) THEN "concatenate" ELSE "clip"
         none == <<Event("no clip", idx, "")>>
     IN IF r[2] > r[1]
        THEN \E subclip \in {"ok", "raises"} :
               IF subclip = "raises" THEN Goto(to, media, next, none)
               ELSE Goto(to, [media EXCEPT !.clips = Append(@, "open")],
                         [next EXCEPT !.clip_spans = Append(@, r)],
                         <<Event("subclip", idx, "")>>)
        ELSE Goto(to, media, next, none)

\* lines 115-134
Concatenate ==
  /\ trim_pc = "concatenate"
  /\ IF media.clips = <<>> THEN Fails("no clips", media, <<>>)
     ELSE \E cb \in Callback, concat \in {"ok", "raises"} :
            IF cb = "raises" THEN Fails("callback", media, <<>>)
            ELSE IF concat = "raises" THEN Fails("concatenate", media, <<>>)
            ELSE Goto("write", [media EXCEPT !.final_video = "open"], trim_local,
                      <<Event("concatenate", 0, "")>>)

\* lines 136-137, 388-390 and 407-465: without a callback the codecs are
\* tried at once; with one, line 408 reads config.target_bitrate and the
\* monitor thread is started
WriteEnter ==
  /\ trim_pc = "write"
  /\ \E cb \in Callback :
       LET l == [trim_local EXCEPT !.idx = 1, !.last_error = None]
           write == <<Event("write", 0, "")>>
       IN IF cb = "raises" THEN Fails("callback", media, <<>>)
          ELSE IF ~progress_callback THEN Goto("attempt", media, l, write)
          ELSE IF ~config.encoding THEN Fails("AttributeError", media, write)
          ELSE Goto("attempt",
                    [media EXCEPT !.monitor = "running", !.thread = "check"],
                    l, write)

\* line 495: the monitor is told to stop
Finally(m) == [m EXCEPT !.monitor = IF @ = "running" THEN "stopped" ELSE @]

\* lines 404 and 492-497: _write_video_with_progress raises `error`; with a
\* monitor the finally comes first
Exits(error, m, events) ==
  IF m.monitor = "none" THEN Fails(error, m, events)
  ELSE Goto("join", Finally(m), [trim_local EXCEPT !.pending = Some(error)],
            events)

\* lines 394 and 480: it returns; with a monitor the finally comes first
Written(m, events) ==
  IF m.monitor = "none" THEN Goto("cleanup", m, trim_local, events)
  ELSE Goto("join", Finally(m), [trim_local EXCEPT !.pending = None], events)

\* lines 395-404 and 481-492: the attempt failed with `error`; its partial
\* output is removed and the next codec is tried, or the last error raised
GivenUp(error, m, events) ==
  LET codec == candidate_codecs[trim_local.idx]
      removed == IF m.output_file = "absent" THEN <<>>
                 ELSE <<Event("removed", trim_local.idx, codec)>>
      next == [trim_local EXCEPT !.idx = @ + 1, !.last_error = Some(error)]
      gone == [m EXCEPT !.output_file = "absent"]
      all == events \o <<Event("failed", trim_local.idx, error)>> \o removed
  IN IF next.idx > Len(candidate_codecs)
     THEN Exits(error, gone, all)
     ELSE Goto("attempt", gone, next, all)

\* lines 372-386: attempt_write; _build_encoding_params reads the
\* attributes of the configuration before the encoder is called
Writes == IF config.encoding THEN {"ok", "fails"} ELSE {"AttributeError"}

\* lines 391-402 and 467-490: one codec.  With a callback, the callbacks of
\* lines 470 and 479 are inside the try and the one of line 484 is inside
\* its handler
Attempt ==
  /\ trim_pc = "attempt"
  /\ \E using \in Callback, written \in Callback, failed \in Callback,
        write \in Writes :
       LET codec == candidate_codecs[trim_local.idx]
           encode == <<Event("encode", trim_local.idx, codec)>>
           partial == [media EXCEPT !.output_file = "partial"]
           whole == [media EXCEPT !.output_file = "written"]
       IN IF using = "raises"
          THEN IF failed = "raises" THEN Exits("callback", media, <<>>)
               ELSE GivenUp("callback", media, <<>>)
          ELSE IF write = "AttributeError"
          THEN IF failed = "raises" THEN Exits("callback", media, <<>>)
               ELSE GivenUp("AttributeError", media, <<>>)
          ELSE IF write = "fails"
          THEN IF failed = "raises"
               THEN Exits("callback", partial,
                          encode \o <<Event("failed", trim_local.idx, codec)>>)
               ELSE GivenUp(codec, partial, encode)
          ELSE IF written = "raises"
          THEN IF failed = "raises"
               THEN Exits("callback", whole,
                          encode \o <<Event("encoded", trim_local.idx, codec)>>)
               ELSE GivenUp("callback", whole,
                           encode \o <<Event("encoded", trim_local.idx, codec)>>)
          ELSE Written(whole,
                       encode \o <<Event("encoded", trim_local.idx, codec)>>)

\* variant: join without a timeout
JoinWaits(thread) == thread = "terminated"

\* lines 496-497: join(timeout=2.0) returns when the thread has ended, or
\* after 2 s; a progress callback can take longer than that, the sleep of
\* 0.5 s before the next test of the event cannot
JoinReturns(thread) == thread \in {"terminated", "calling"}

\* lines 496-497, then the return or the exception that was on its way
JoinMonitor ==
  /\ trim_pc = "join"
  /\ JoinReturns(media.thread)
  /\ IF trim_local.pending = None
     THEN Goto("cleanup", media, trim_local, <<>>)
     ELSE Fails(The(trim_local.pending), media, <<>>)

\* variant: while True
MonitorNeverStops(m) == TRUE

\* line 418: while progress_active.is_set()
MonitorGoesOn(m) == m.monitor = "running"

\* lines 416-459: progress_monitor, the target of progress_thread.  It
\* tests the event and goes into the progress callback ("calling"); it
\* comes back from the callback (an exception of the callback is caught at
\* line 457) and sleeps until it tests the event again ("check")
progress_monitor ==
  /\ media.thread \in {"check", "calling"}
  /\ media' = [media EXCEPT !.thread =
                 IF @ = "calling" THEN "check"
                 ELSE IF MonitorGoesOn(media) THEN "calling" ELSE "terminated"]
  /\ UNCHANGED <<trim_pc, trim_local, outcome, trail, cancelled, cancel_at>>
  /\ Trimming

\* lines 146-158
CloseAll ==
  /\ trim_pc = "cleanup"
  /\ \E cleaning \in Callback, complete \in Callback :
       LET closed == [media EXCEPT !.clips = [k \in DOMAIN @ |-> "closed"],
                                   !.final_video = "closed",
                                   !.video = "closed"]
       IN IF cleaning = "raises" THEN Fails("callback", media, <<>>)
          ELSE IF complete = "raises" THEN Fails("callback", closed, <<>>)
          ELSE Ends("returned", "", closed, <<>>)

\* gui.py 124-127: the user cancels the dialog while trim runs
cancel ==
  /\ progress_callback
  /\ ~cancelled
  /\ trim_pc \notin {"idle", "done"}
  /\ cancelled' = TRUE
  /\ cancel_at' = Len(trail)
  /\ UNCHANGED <<trim_pc, trim_local, media, outcome, trail>>
  /\ Trimming

(***************************** specification *******************************)
NoCall == [op |-> "none", id |-> "", ret |-> Void, args |-> <<>>]

InitTracker ==
  /\ operations = <<>>
  /\ callbacks = [i \in Ids |-> <<>>]
  /\ cancelled_operations = {}
  /\ lock = "free"
  /\ now = 1
  /\ pc = "idle"
  /\ local = NoLocal
  /\ threads = EmptyBag
  /\ calls = 0
  /\ last = NoCall
  /\ phase = [i \in Ids |-> "never"]

\* no video is trimmed while the tracker and the transcript are exercised
NoTrim ==
  /\ config = AppConfig
  /\ progress_callback = FALSE
  /\ cancelled = FALSE
  /\ trim_pc = "idle"
  /\ trim_local = NoLocals
  /\ media = NoMedia
  /\ outcome = Running
  /\ trail = <<>>
  /\ cancel_at = 0

\* no transcript is loaded while the tracker is exercised
NoDone == [op |-> "none", args |-> <<>>, ret |-> Void]

\* the media ends where its last segment ends
MediaEnd(segs) ==
  LET ends == {0} \cup {segs[k].end_time : k \in DOMAIN segs}
  IN CHOOSE e \in ends : \A x \in ends : x <= e

NoTranscript ==
  /\ segments = <<>>
  /\ filler_patterns = <<>>
  /\ done = NoDone
  /\ transcript_duration = MediaEnd(segments)
  /\ NoTrim

Init == InitTracker /\ budget = MaxCalls /\ NoTranscript

Start == \E id \in Ids, n \in TotalStepsArgs : start_operation(id, n, "d")
Update == \E id \in Ids, u \in UpdateArgs : update_progress(id, u[1], u[2], u[3])
Complete == \E id \in Ids, r \in ResultArgs : complete_operation(id, r)
Fail == \E id \in Ids, e \in ErrorArgs : fail_operation(id, e)
Cancel == \E id \in Ids : cancel_operation(id)
Subscribe == \E id \in Ids, cb \in Callbacks : add_callback(id, cb)
Cleanup == \E a \in MaxAgeArgs : cleanup_completed_operations(a)
Run == \E t \in BagToSet(threads) : ThreadRun(t)
Reenter == \E t \in BagToSet(threads) : ThreadAcquire(t)
Leave == \E t \in BagToSet(threads) : ThreadRelease(t)

Next ==
  \/ Start
  \/ Update
  \/ Complete
  \/ Fail
  \/ Cancel
  \/ Subscribe
  \/ Cleanup
  \/ cleanup_locked
  \/ Release
  \/ Run
  \/ Reenter
  \/ Leave
  \/ Tick

Spec == Init /\ [][Next]_vars

\* the threads are scheduled: a thread that can take a step takes it
InitLive == InitTracker /\ budget = MaxCallsLive /\ NoTranscript

FairSpec ==
  /\ InitLive
  /\ [][Next]_vars
  /\ WF_vars(Release)
  /\ WF_vars(cleanup_locked)
  /\ WF_vars(Run)
  /\ WF_vars(Reenter)
  /\ WF_vars(Leave)

(********************** specification of the transcript ********************)
\* sequences of at most n elements of S
SeqUpTo(S, n) == UNION {[1 .. m -> S] : m \in 0 .. n}

\* the spans of the segments without word timings: nested, overlapping,
\* and 0.05 s, 0.1 s and 1 s after the end of another
Spans ==
  {<<0, 200>>, <<0, 500>>, <<200, 400>>, <<205, 400>>, <<210, 400>>,
   <<210, 500>>, <<300, 500>>}

\* a segment with word timings, and the texts it is given
Timed(text, is_filler) ==
  TranscriptSegment(0, 400, text, is_filler, 90,
                    <<WordTiming("So", 0, 50), WordTiming("we", 60, 100),
                      WordTiming("go", 300, 400)>>)
TimedTexts == {<<"So", "we", "go">>, <<"So", "go">>, <<"go", "we">>}

SegmentChoices ==
  {TranscriptSegment(sp[1], sp[2], <<"we", "go">>, f, 90, <<>>) :
     sp \in Spans, f \in BOOLEAN}
  \cup {Timed(t, FALSE) : t \in TimedTexts}

\* the tracker is idle while the transcript is exercised
TrackerIdle == InitTracker /\ budget = 0

TimelineInit ==
  /\ TrackerIdle
  /\ segments \in SeqUpTo(SegmentChoices, MaxSegments)
  /\ filler_patterns = <<>>
  /\ done = NoDone
  /\ transcript_duration = MediaEnd(segments)
  /\ NoTrim

TimelineNext ==
  \/ remove_filler_segments
  \/ get_active_time_ranges

TimelineSpec == TimelineInit /\ [][TimelineNext]_vars

(* the transcript under edit *)
\* the segments the editor shows: one with word timings at 0 s, one
\* without at 0.05 s (within the marker tolerance of the first) and one
\* without at 2.05 s
EditChoices ==
  {Timed(<<"So", "we", "go">>, f) : f \in BOOLEAN}
  \cup {TranscriptSegment(5, 200, <<"we", "go">>, f, 90, <<>>) : f \in BOOLEAN}
  \cup {TranscriptSegment(205, 400, <<"go">>, f, 90, <<>>) : f \in BOOLEAN}

\* the lines of an edited text: markers 0.00 s and 2.09 s, a marker whose
\* time does not parse, a blank line and a line of text
Lines == {Marker(0), Marker(209), BadMarker, Text(<<>>), Text(<<"we">>)}
EditedTexts == SeqUpTo(Lines, MaxLines)

EditInit ==
  /\ TrackerIdle
  /\ segments \in SeqUpTo(EditChoices, MaxEditSegments) \ {<<>>}
  /\ filler_patterns = <<>>
  /\ done = NoDone
  /\ transcript_duration = MediaEnd(segments)
  /\ NoTrim

Edit == \E edited_text \in EditedTexts : update_from_text(edited_text)

EditNext ==
  \/ remove_filler_segments
  \/ Edit
  \/ get_active_time_ranges

EditSpec == EditInit /\ [][EditNext]_vars

(* the editor of gui.py: the transcript is shown, edited and saved.  The    *)
(* text of the editor is what display_transcript returned or, after a      *)
(* save, what was saved.                                                   *)
\* f"{t:.1f}": the time to one decimal, in hundredths.  The times of the
\* model do not end in 5 hundredths, where the binary value decides
OneDecimal(t) == ((t + 5) \div 10) * 10

\* gui.py 449-454: a marker line and a line of text for each segment that
\* is not deleted
RECURSIVE transcript_content(_)
transcript_content(segs) ==
  IF segs = <<>> THEN <<>>
  ELSE (IF Head(segs).is_deleted THEN <<>>
        ELSE <<Marker(OneDecimal(Head(segs).start_time)), Text(Head(segs).text)>>)
       \o transcript_content(Tail(segs))

\* gui.py 442-461
display_transcript ==
  /\ Returns("display_transcript", <<>>, transcript_content(segments))
  /\ UNCHANGED <<segments, filler_patterns>>

\* the text that the editor holds; the model has the transcript shown
\* again after the ranges were asked for
transcript_text ==
  CASE done.op = "display_transcript" -> done.ret
    [] done.op = "update_from_text" -> done.args
    [] OTHER -> <<>>

\* a sequence without its k-th element
RemoveAt(ws, k) == [m \in 1 .. Len(ws) - 1 |-> IF m < k THEN ws[m] ELSE ws[m + 1]]

\* what the user can make of the text: leave it, or delete one word of a
\* line of text
Edits(content) ==
  {content} \cup
  UNION {{[content EXCEPT ![n] = Text(RemoveAt(content[n].words, k))] :
            k \in 1 .. Len(content[n].words)} :
         n \in {m \in DOMAIN content : ~content[m].marker}}

\* gui.py 714-743: auto_save_transcript and parse_text_to_segments; a
\* blank text is not parsed
auto_save_transcript ==
  \E content \in Edits(transcript_text) :
    /\ NonBlank(content) # <<>>
    /\ update_from_text(content)

\* a segment of 1 s whose second word takes 0.05 s
Brisk ==
  TranscriptSegment(0, 100, <<"So", "we", "go">>, FALSE, 90,
                    <<WordTiming("So", 0, 50), WordTiming("we", 55, 60),
                      WordTiming("go", 60, 100)>>)

\* the segments in the editor: two with word timings at 0 s, and segments
\* without at 0.04 s, 0.08 s and 5 s
EditorChoices ==
  {Timed(<<"So", "we", "go">>, FALSE), Brisk,
   TranscriptSegment(4, 200, <<"we", "go">>, FALSE, 90, <<>>),
   TranscriptSegment(8, 200, <<"we">>, FALSE, 90, <<>>),
   TranscriptSegment(500, 600, <<"go">>, FALSE, 90, <<>>)}

EditorInit ==
  /\ TrackerIdle
  /\ segments \in SeqUpTo(EditorChoices, MaxEditorSegments) \ {<<>>}
  /\ filler_patterns = <<>>
  /\ done = NoDone
  /\ transcript_duration = MediaEnd(segments)
  /\ NoTrim

EditorNext ==
  \/ display_transcript
  \/ auto_save_transcript
  \/ get_active_time_ranges

EditorSpec == EditorInit /\ [][EditorNext]_vars

(* the word-range reconciler *)
\* the words of a segment as the recogniser gives them, and the words of an
\* edited text
OriginalWordChoices == {"So", "we", "go"}
EditedWordChoices == {"so", "we", "go"}

\* word k of a segment is spoken from k - 1 s to k - 0.1 s
Spoken(words) ==
  TranscriptSegment(0, 100 * Len(words), words, FALSE, 90,
                    [k \in DOMAIN words |->
                       WordTiming(words[k], 100 * (k - 1), 100 * k - 10)])

WordsInit ==
  /\ TrackerIdle
  /\ \E words \in SeqUpTo(OriginalWordChoices, MaxWords) \ {<<>>} :
       segments = <<Spoken(words)>>
  /\ filler_patterns = <<>>
  /\ done = NoDone
  /\ transcript_duration = MediaEnd(segments)
  /\ NoTrim

Reconcile ==
  \E edited_text \in SeqUpTo(EditedWordChoices, MaxWords) :
    word_ranges(1, edited_text)

WordsNext ==
  \/ Reconcile
  \/ get_active_time_ranges

WordsSpec == WordsInit /\ [][WordsNext]_vars

(* the filler detector *)
Confidences == {-25, 0, 30, 75, 80, 95}

\* the segment under detection: every text of the vocabulary in a segment
\* of 1 s and a word in a segment of 0.25 s, with a confidence that is an
\* avg_logprob (negative), the default 0 or one of a test, flagged or not
\* before the call
DetectChoices ==
  {TranscriptSegment(0, 100, text, f, c, <<>>) :
     text \in SeqUpTo(Vocabulary, MaxWords), f \in BOOLEAN, c \in Confidences}
  \cup {TranscriptSegment(0, 25, <<"the">>, f, c, <<>>) :
          f \in BOOLEAN, c \in Confidences}

\* the segments after it
Companions ==
  {<<>>, <<TranscriptSegment(100, 200, <<"Basically", "um">>, FALSE, 80, <<>>)>>}

DetectInit ==
  /\ TrackerIdle
  /\ \E segment \in DetectChoices, rest \in Companions :
       segments = <<segment>> \o rest
  /\ filler_patterns = BuiltinPatterns
  /\ done = NoDone
  /\ transcript_duration = MediaEnd(segments)
  /\ NoTrim

Detect == detect_filler_words(<<>>)
DetectCustom == detect_filler_words(<<"Basically">>)

DetectNext ==
  \/ Detect
  \/ DetectCustom

DetectSpec == DetectInit /\ [][DetectNext]_vars

(* the measures of a transcript *)
\* the transcript of create_sample_transcript
SampleTranscript ==
  <<TranscriptSegment(0, 200, <<"Hello", "everyone">>, FALSE, 95, <<>>),
    TranscriptSegment(200, 250, <<"um">>, FALSE, 70, <<>>),
    TranscriptSegment(250, 400, <<"welcome", "to", "this", "video">>, FALSE, 90, <<>>),
    TranscriptSegment(400, 420, <<"uh">>, FALSE, 60, <<>>),
    TranscriptSegment(420, 600, <<"today", "we", "will", "discuss">>, FALSE, 92, <<>>),
    TranscriptSegment(600, 800, <<"artificial", "intelligence">>, FALSE, 98, <<>>),
    TranscriptSegment(800, 830, <<"you", "know">>, FALSE, 80, <<>>),
    TranscriptSegment(830, 1000, <<"and", "machine", "learning">>, FALSE, 94, <<>>)>>

\* a segment of the tests of 1 s or 2 s, constructed as filler or not; a
\* filler segment is deleted by remove_filler_segments
Pieces == {[d |-> d, is_filler |-> f] : d \in {100, 200}, f \in BOOLEAN}

\* the segments of the pieces, one after the other from `from`
RECURSIVE Laid(_, _)
Laid(pieces, from) ==
  IF pieces = <<>> THEN <<>>
  ELSE LET p == Head(pieces)
           segment == TranscriptSegment(from, from + p.d, <<"the">>,
                                        p.is_filler, 90, <<>>)
       IN <<segment>> \o Laid(Tail(pieces), from + p.d)

\* the duration given to the transcript: none, 1 s, or that of the media
MeasureInit ==
  /\ TrackerIdle
  /\ \/ segments = SampleTranscript
     \/ \E pieces \in SeqUpTo(Pieces, MaxMeasured) : segments = Laid(pieces, 0)
  /\ filler_patterns = BuiltinPatterns
  /\ done = NoDone
  /\ transcript_duration \in {0, 100, MediaEnd(segments)}
  /\ NoTrim

MeasureNext ==
  \/ Detect
  \/ remove_filler_segments
  \/ get_filler_statistics
  \/ estimate_output_duration
  \/ calculate_compression_ratio

MeasureSpec == MeasureInit /\ [][MeasureNext]_vars

(* the search for silence *)
\* the spans of the segments: one that covers the others, and gaps of
\* 1 s, 0.4 s, 0.5 s and 7 s between the others
SilenceSpans ==
  {<<0, 100>>, <<0, 1000>>, <<200, 300>>, <<340, 400>>, <<350, 400>>,
   <<1100, 1200>>}

SilenceInit ==
  /\ TrackerIdle
  /\ segments \in SeqUpTo({TranscriptSegment(sp[1], sp[2], <<"the">>, FALSE, 90, <<>>) :
                             sp \in SilenceSpans}, MaxSilenceSegments)
  /\ filler_patterns = BuiltinPatterns
  /\ done = NoDone
  /\ transcript_duration = MediaEnd(segments)
  /\ NoTrim

\* filler_detector.py 304-332, called with the transcript
EmptySpots ==
  /\ Returns("detect_empty_spots", <<>>, detect_empty_spots(segments))
  /\ UNCHANGED <<segments, filler_patterns>>

SilenceNext ==
  \/ EmptySpots
  \/ get_filler_statistics

SilenceSpec == SilenceInit /\ [][SilenceNext]_vars

(* the trim pipeline *)
\* a configuration that has the attributes the service reads
Tuned(fast, gpu) ==
  [prefer_fast_trim |-> fast, prefer_gpu_encoding |-> gpu,
   gpu_codecs |-> <<"h264_nvenc">>, encoding |-> TRUE]
Configs == {AppConfig} \cup {Tuned(fast, gpu) : fast \in BOOLEAN, gpu \in BOOLEAN}

\* the segments of the transcript that is trimmed: two that are apart, one
\* of no length between them and a deleted one
TrimChoices ==
  {TranscriptSegment(0, 200, <<"we", "go">>, FALSE, 90, <<>>),
   TranscriptSegment(250, 250, <<"we">>, FALSE, 90, <<>>),
   TranscriptSegment(300, 500, <<"go">>, FALSE, 90, <<>>),
   [TranscriptSegment(0, 200, <<"um">>, TRUE, 90, <<>>) EXCEPT !.is_deleted = TRUE]}

\* the video is as long as the transcript says: to the end of the last
\* segment, or 2 s
TrimInit ==
  /\ TrackerIdle
  /\ segments \in SeqUpTo(TrimChoices, MaxTrimSegments)
  /\ filler_patterns = <<>>
  /\ done = NoDone
  /\ transcript_duration \in {200, MediaEnd(segments)}
  /\ config \in Configs
  /\ progress_callback \in BOOLEAN
  /\ cancelled = FALSE
  /\ trim_pc = "called"
  /\ trim_local = NoLocals
  /\ media = NoMedia
  /\ outcome = Running
  /\ trail = <<>>
  /\ cancel_at = 0

TrimNext ==
  \/ Validate
  \/ Load
  \/ Analyze
  \/ FastEnter
  \/ Cut
  \/ WriteList
  \/ ConcatBsf
  \/ ConcatPlain
  \/ FastFinish
  \/ FastFailed
  \/ ClipsEnter
  \/ Clip
  \/ Concatenate
  \/ WriteEnter
  \/ Attempt
  \/ JoinMonitor
  \/ progress_monitor
  \/ CloseAll
  \/ cancel

TrimSpec == TrimInit /\ [][TrimNext]_vars

\* the steps of the worker thread that runs trim (gui.py 555-574)
Worker ==
  \/ Validate \/ Load \/ Analyze
  \/ FastEnter \/ Cut \/ WriteList \/ ConcatBsf \/ ConcatPlain \/ FastFinish
  \/ FastFailed
  \/ ClipsEnter \/ Clip \/ Concatenate \/ WriteEnter \/ Attempt \/ JoinMonitor
  \/ CloseAll

\* the transcripts whose trim is followed to its end: up to
\* MaxTrimSegments segments that are apart, in a video of their length
LiveChoices ==
  {TranscriptSegment(0, 200, <<"we", "go">>, FALSE, 90, <<>>),
   TranscriptSegment(300, 500, <<"go">>, FALSE, 90, <<>>)}

TrimLiveInit ==
  /\ TrackerIdle
  /\ segments \in SeqUpTo(LiveChoices, MaxTrimSegments)
  /\ filler_patterns = <<>>
  /\ done = NoDone
  /\ transcript_duration = MediaEnd(segments)
  /\ config \in Configs
  /\ progress_callback \in BOOLEAN
  /\ cancelled = FALSE
  /\ trim_pc = "called"
  /\ trim_local = NoLocals
  /\ media = NoMedia
  /\ outcome = Running
  /\ trail = <<>>
  /\ cancel_at = 0

\* every ffmpeg process, every encode and every progress callback comes
\* back, and both threads are scheduled; the user need not cancel
TrimFairSpec ==
  /\ TrimLiveInit
  /\ [][TrimNext]_vars
  /\ WF_vars(Worker)
  /\ WF_vars(progress_monitor)

(* _fast_trim_stream_copy on the ranges it is given *)
\* the times of the ranges, in hundredths of a second
CutTimes == {0, 200, 201, 500, 600, 1000}
CutRanges == {<<a, b>> : a \in CutTimes, b \in CutTimes} \ {r \in CutTimes \X CutTimes : r[1] >= r[2]}

\* the sequences of ranges in the order of their starts
SortedByStart(ranges) ==
  \A i \in DOMAIN ranges : \A j \in DOMAIN ranges : i < j => ranges[i][1] <= ranges[j][1]

\* trim has opened the video and calls the fast trim (line 71)
CutInit ==
  /\ TrackerIdle
  /\ segments = <<>>
  /\ filler_patterns = <<>>
  /\ done = NoDone
  /\ transcript_duration = 0
  /\ config = Tuned(TRUE, FALSE)
  /\ progress_callback \in BOOLEAN
  /\ cancelled = FALSE
  /\ trim_pc = "fast"
  /\ \E ranges \in SeqUpTo(CutRanges, MaxCutRanges) :
       /\ SortedByStart(ranges)
       /\ trim_local = [NoLocals EXCEPT !.active_ranges = ranges]
  /\ media = [NoMedia EXCEPT !.video = "open"]
  /\ outcome = Running
  /\ trail = <<>>
  /\ cancel_at = 0

CutNext ==
  \/ FastEnter
  \/ Cut
  \/ WriteList

CutSpec == CutInit /\ [][CutNext]_vars

(******************************** claims ***********************************)
ACall == calls' = calls + 1

Known(id) == id \in DOMAIN operations

\* C1 as stated: after cancel(id) returned True and with no start(id)
\* since, every update(id, ...) returns False and get_progress(id) then
\* shows status cancelled.
C1_UpdateAfterCancelReadsCancelled ==
  (last.op = "update" /\ phase[last.id] = "cancelled") =>
    /\ last.ret = False
    /\ get_progress(last.id) # None
    /\ The(get_progress(last.id)).status = CANCELLED

\* C1 as amended: after cancel(id) returned True and with no start(id)
\* since, every update(id, ...) returns False, and the status is cancelled
\* after it as long as cleanup has not evicted the operation.
C1_UpdateAfterCancel ==
  (last.op = "update" /\ phase[last.id] = "cancelled") =>
    /\ last.ret = False
    /\ Known(last.id) => operations[last.id].status = CANCELLED

\* the update that follows cancel(id) and complete(id)
C1_Witness ==
  /\ last.op = "update"
  /\ phase[last.id] = "cancelled"
  /\ Known(last.id)
  /\ operations[last.id].result # None

\* C2: once cancel(id) returned True the status of id is cancelled until
\* start(id) is called again, whatever update, complete, fail and cancel
\* calls follow.
C2_CancelledStaysCancelled ==
  \A id \in Ids :
    (phase[id] = "cancelled" /\ Known(id)) => operations[id].status = CANCELLED

\* C3: an update that returns False leaves the registry as it was and
\* notifies no subscriber.
C3_RejectedUpdateChangesNothing ==
  [][(ACall /\ last'.op = "update" /\ last'.ret = False) =>
       (tracker' = tracker /\ threads' = threads)]_vars

\* C4: cancel on an unknown id or on a completed or failed operation
\* returns False, changes no record and no cancellation flag, and notifies
\* no subscriber.
C4_CancelOfFinishedIsRejected ==
  [][(/\ ACall
      /\ last'.op = "cancel"
      /\ \/ ~Known(last'.id)
         \/ operations[last'.id].status \in {COMPLETED, FAILED}) =>
       (last'.ret = False /\ tracker' = tracker /\ threads' = threads)]_vars

\* cancel of a completed operation that has a subscriber
C4_Witness ==
  /\ last.op = "cancel"
  /\ last.ret = False
  /\ Known(last.id)
  /\ operations[last.id].status = COMPLETED
  /\ callbacks[last.id] # <<>>

\* C5: complete on a known id leaves status completed, percent 100,
\* end_time set and the result stored; fail leaves status failed, end_time
\* set and the message stored; on an unknown id neither creates a record
\* nor changes the registry.
C5_CompleteAndFail ==
  [][(ACall /\ last'.op \in {"complete", "fail"}) =>
       IF Known(last'.id)
       THEN /\ DOMAIN operations' = DOMAIN operations
            /\ LET info == operations'[last'.id] IN
               /\ info.end_time # None
               /\ last'.op = "complete" =>
                    /\ info.status = COMPLETED
                    /\ info.progress_percent = 100
                    /\ info.result = last'.args[1]
               /\ last'.op = "fail" =>
                    /\ info.status = FAILED
                    /\ info.error_message = Some(last'.args[1])
       ELSE tracker' = tracker /\ threads' = threads]_vars

\* complete of a known operation
C5_Witness ==
  /\ last.op = "complete"
  /\ Known(last.id)
  /\ operations[last.id].status = COMPLETED
  /\ operations[last.id].result = Some("r")

\* C6: the progress_percent of every operation lies in [0, 100].
C6_PercentInRange ==
  \A id \in DOMAIN operations :
    /\ operations[id].progress_percent >= 0
    /\ operations[id].progress_percent <= 100

\* C7: start(id) leaves id running with percent 0, no end_time and no
\* cancellation flag; an update(id, ...) made after a start(id) that no
\* cancel(id) has followed, on a registered id, returns True and is applied.
C7_StartMakesRunningAndClearsCancel ==
  /\ last.op = "start" =>
       /\ Known(last.id)
       /\ operations[last.id].status = RUNNING
       /\ operations[last.id].progress_percent = 0
       /\ operations[last.id].end_time = None
       /\ ~is_cancelled(last.id)
  /\ \A id \in Ids : phase[id] \in {"started", "restarted"} => ~is_cancelled(id)
  /\ (last.op = "update" /\ phase[last.id] \in {"started", "restarted"}
                         /\ Known(last.id)) =>
       /\ last.ret = True
       /\ LET info == operations[last.id]
              p == last.args[1]
          IN /\ p # None =>
                  info.progress_percent =
                    IF The(p) > 100 THEN 100 ELSE IF The(p) < 0 THEN 0 ELSE The(p)
             /\ last.args[2] # None => info.current_step = The(last.args[2])
             /\ last.args[3] # None => info.current_step_number = The(last.args[3])

\* an update accepted after cancel(id) and start(id)
C7_Witness ==
  /\ last.op = "update"
  /\ last.ret = True
  /\ phase[last.id] = "restarted"

\* the registrations of callback cb in a callback list
RECURSIVE Count(_, _)
Count(cb, cbs) ==
  IF cbs = <<>> THEN 0
  ELSE (IF Head(cbs) = cb THEN 1 ELSE 0) + Count(cb, Tail(cbs))

\* one new thread for each registration under id, and no other
OneThreadEach(id) ==
  LET new == {Thread(id, cb, "started", TRUE) : cb \in Callbacks}
  IN \A t \in BagToSet(threads) \cup BagToSet(threads') \cup new :
       CopiesIn(t, threads') =
         CopiesIn(t, threads) + (IF t \in new THEN Count(t.cb, callbacks[id]) ELSE 0)

ReentrantPending == \E t \in BagToSet(threads) : t.cb = "reentrant"

\* C9 as stated: no callback runs while the call that dispatched it holds
\* the lock; a callback that calls the tracker gets the lock and returns;
\* the dispatching call returns whatever the callbacks do.
C9_NoCallbackRunsUnderDispatchLock ==
  /\ [](\A t \in BagToSet(threads) : ~(t.pc = "running" /\ t.under))
  /\ ReentrantPending ~> ~ReentrantPending
  /\ (pc = "locked") ~> (pc = "idle")

\* C9 as amended: a callback runs on a thread of its own, which may start
\* while the dispatching call still holds the lock; a callback that calls
\* the tracker gets the lock and returns; the dispatching call returns
\* whatever the callbacks do, also when one never returns.
C9_CallbacksDoNotBlock ==
  /\ ReentrantPending ~> ~ReentrantPending
  /\ (pc = "locked") ~> (pc = "idle")

\* a callback that calls the tracker waits for the lock of the call that
\* dispatched it, beside a callback that never returns
C9_Witness ==
  /\ lock = "main"
  /\ \E t \in BagToSet(threads) : t.cb = "reentrant" /\ t.pc = "running" /\ t.under
  /\ \E t \in BagToSet(threads) : t.cb = "hanging" /\ t.pc = "running"

\* C10: cleanup removes the completed, failed and cancelled operations
\* whose end_time is more than max_age before the time cleanup read, with
\* their callbacks and cancellation flags, removes no running operation and
\* leaves the rest as it was.
C10_CleanupRemovesOldFinished ==
  [][(ACall /\ last'.op = "cleanup") =>
       LET current_time == last'.args[1]
           max_age == last'.args[2]
           old == {id \in DOMAIN operations :
                     /\ operations[id].status \in {COMPLETED, FAILED, CANCELLED}
                     /\ operations[id].end_time # None
                     /\ The(operations[id].end_time) < current_time - max_age}
       IN /\ DOMAIN operations' = DOMAIN operations \ old
          /\ \A id \in DOMAIN operations' : operations'[id] = operations[id]
          /\ \A id \in DOMAIN operations :
               operations[id].status = RUNNING => id \in DOMAIN operations'
          /\ \A id \in old : callbacks'[id] = <<>> /\ id \notin cancelled_operations'
          /\ \A id \in Ids \ old :
               /\ callbacks'[id] = callbacks[id]
               /\ id \in cancelled_operations' <=> id \in cancelled_operations
          /\ threads' = threads]_vars

\* a cleanup that evicted one operation and kept another
C10_Witness ==
  /\ last.op = "cleanup"
  /\ \E id \in Ids : phase[id] # "never" /\ ~Known(id)
  /\ \E id \in Ids : Known(id)

(************************ claims about the transcript **********************)
\* the spans that get_active_time_ranges collected from the segments; the
\* call leaves the segments as they are
Returned == done.op = "get_active_time_ranges"
InputSpans == Collect(segments)

\* C11: the ranges that get_active_time_ranges returns are in ascending
\* order, no two of them overlap, and consecutive ranges (s1,e1), (s2,e2)
\* satisfy s2 > e1 + 0.1 s, for deleted and active, overlapping and
\* out-of-order segments with and without word timings.
C11_RangesAscendingAndApart ==
  Returned =>
    LET r == done.ret IN
    /\ \A k \in 1 .. Len(r) - 1 :
         /\ r[k][1] < r[k + 1][1]
         /\ r[k + 1][1] > r[k][2] + 10
    /\ \A k, m \in DOMAIN r : k < m => r[k][2] < r[m][1]

\* two ranges come back from a deleted segment, a segment with word
\* timings and an active segment that starts before the one in front of it
C11_Witness ==
  /\ Returned
  /\ Len(done.ret) >= 2
  /\ \E k \in DOMAIN segments : segments[k].is_deleted
  /\ \E k \in DOMAIN segments :
       ~segments[k].is_deleted /\ segments[k].word_timings # <<>>
  /\ \E j, k \in DOMAIN segments :
       /\ j < k
       /\ ~segments[j].is_deleted /\ ~segments[k].is_deleted
       /\ segments[k].start_time < segments[j].start_time

\* two spans touch when neither starts more than 0.1 s after the other ends
Touch(a, b) == a[1] <= b[2] + 10 /\ b[1] <= a[2] + 10

RECURSIVE Grow(_, _)
Grow(C, S) ==
  LET N == C \cup {b \in S : \E a \in C : Touch(a, b)}
  IN IF N = C THEN C ELSE Grow(N, S)

SetMax(S) == CHOOSE x \in S : \A y \in S : y <= x
Hull(C) == <<SetMin({c[1] : c \in C}), SetMax({c[2] : c \in C})>>
Elements(q) == {q[k] : k \in DOMAIN q}

\* the reference merge: one range per chain of touching spans
ReferenceMerge(S) == {Hull(Grow({a}, S)) : a \in S}

\* C12: the merge of get_active_time_ranges is the reference merge of the
\* start-sorted spans (a span joins the merged span before it exactly when
\* it starts at most 0.1 s after that span ends, the merged end is the
\* maximum of the ends): every input span lies in a returned range, every
\* returned range starts at an input start and ends at an input end;
\* (0,2),(2.05,4) gives (0,4); (0,2),(3,5) stays; no active segment gives
\* the empty sequence.
C12_MergeIsReferenceMerge ==
  Returned =>
    LET r == done.ret
        spans == Elements(InputSpans)
    IN /\ Elements(r) = ReferenceMerge(spans)
       /\ Len(r) = Cardinality(ReferenceMerge(spans))
       /\ \A a \in spans : \E k \in DOMAIN r : r[k][1] <= a[1] /\ a[2] <= r[k][2]
       /\ \A k \in DOMAIN r :
            /\ \E a \in spans : a[1] = r[k][1]
            /\ \E a \in spans : a[2] = r[k][2]
       /\ InputSpans = <<<<0, 200>>, <<205, 400>>>> => r = <<<<0, 400>>>>
       /\ InputSpans = <<<<0, 200>>, <<300, 500>>>> => r = InputSpans
       /\ get_active_segments = <<>> => r = <<>>

\* three spans that are not sorted by start merge into one range, the
\* last of them joining at a gap of exactly 0.1 s
C12_Witness ==
  /\ Returned
  /\ InputSpans = <<<<210, 400>>, <<0, 500>>, <<0, 200>>>>
  /\ done.ret = <<<<0, 500>>>>

Edited == done.op = "update_from_text"

\* no line of text follows line p of the edited text before the next marker
NoTextAfter(lines, p) ==
  \A q \in p + 1 .. Len(lines) :
    (~lines[q].marker /\ lines[q].words # <<>>) =>
      \E m \in p + 1 .. q - 1 : lines[m].marker

\* C13: after update_from_text, every segment whose timestamp marker is in
\* the text with no non-blank line of text between that marker and the
\* next marker, or the end of the text, is deleted.
C13_EmptiedSegmentIsDeleted ==
  Edited =>
    \A p \in DOMAIN done.args :
      LET line == done.args[p]
          k == IF line.marker /\ line.time # None
               THEN Matching(segments, The(line.time)) ELSE 0
      IN (k # 0 /\ NoTextAfter(done.args, p)) => segments[k].is_deleted

\* a marker is within 0.1 s of the start of segment k
Marked(lines, k) ==
  \E p \in DOMAIN lines :
    /\ lines[p].marker
    /\ lines[p].time # None
    /\ Abs(segments[k].start_time - The(lines[p].time)) < 10

\* C14: update_from_text leaves the text, is_deleted and is_filler of
\* every segment that no marker of the text matches as they were, also of
\* a segment that was deleted before the call.
C14_UnmarkedSegmentUntouched ==
  [][Edited' =>
       \A k \in DOMAIN segments :
         ~Marked(done'.args, k) => segments'[k] = segments[k]]_vars

\* C15: the runs of original word indices behind the ranges that
\* get_active_word_ranges emits are pairwise disjoint and in increasing
\* order, so that no original word is behind more than one range.
C15_RunsDisjointAndIncreasing ==
  done.op = "get_active_word_ranges" =>
    LET self == segments[done.args[1]]
        runs == WordRuns(LowerAll(done.args[2]), OriginalWords(self), 0)
    IN \A a, b \in DOMAIN runs : a < b => runs[a][2] < runs[b][1]

(********************* claims about the filler detector ********************)
Detected == done.op = "detect_filler_words"

\* C16: a detect call that follows a detect call with the same arguments
\* on the same detector leaves is_filler of every segment as it was.
C16_DetectTwiceIsDetectOnce ==
  [][(Detected' /\ done'.args.again) =>
       \A k \in DOMAIN segments :
         segments'[k].is_filler = segments[k].is_filler]_vars

\* the second detect with the custom word, which flagged the segment the
\* first time
C16_Witness ==
  /\ Detected
  /\ done.args.again
  /\ done.args.custom = <<"Basically">>
  /\ Len(filler_patterns) = Len(BuiltinPatterns) + 2
  /\ segments[1].text = <<"Basically">>
  /\ segments[1].confidence = 80
  /\ done.ret[1][1]
  /\ segments[1].is_filler

\* C17: after detect every segment whose confidence is below 0.3 is
\* filler, whatever its text and duration; an avg_logprob and the default
\* 0.0 of the transcription service are such confidences.
C17_LowConfidenceIsFiller ==
  Detected =>
    \A k \in DOMAIN segments :
      segments[k].confidence < 30 => segments[k].is_filler

\* a long segment of plain text with the default confidence 0.0, flagged
\* by the call
C17_Witness ==
  /\ Detected
  /\ segments[1].confidence = 0
  /\ segments[1].text = <<"the">>
  /\ duration(segments[1]) = 100
  /\ done.ret[1][1]
  /\ segments[1].is_filler

\* the segments C18 is about: no unconditional rule applies, the segment
\* is not flagged yet and the built-in rules do not make it filler
HasBasically(segment) ==
  \E j \in DOMAIN segment.text : LowerWord(segment.text[j]) = "basically"
OnlyCustomCanFlag(segment) ==
  /\ ~empty_or_short(segment)
  /\ segment.confidence >= 30
  /\ ~segment.is_filler
  /\ ~is_filler_segment(BuiltinPatterns, segment)[1]

\* C18 as stated: detect with the custom word "basically" flags exactly
\* the segments whose normalized text holds the word "basically", at every
\* confidence at which no unconditional rule applies.
C18_CustomWordAtEveryConfidence ==
  [][(Detected' /\ done'.args.custom # <<>>) =>
       \A k \in DOMAIN segments :
         OnlyCustomCanFlag(segments[k]) =>
           (segments'[k].is_filler <=> HasBasically(segments[k]))]_vars

\* C18 as amended: detect with the custom word "basically" flags exactly
\* the segments whose normalized text holds the word "basically" and
\* whose confidence is at least 0.8, the threshold of a custom pattern.
C18_CustomWordFromItsThreshold ==
  [][(Detected' /\ done'.args.custom # <<>>) =>
       \A k \in DOMAIN segments :
         OnlyCustomCanFlag(segments[k]) =>
           (segments'[k].is_filler <=>
              (HasBasically(segments[k]) /\ segments[k].confidence >= 80))]_vars

\* the custom pattern, the 25th of the list, flags "the Basically"
C18_Witness ==
  /\ Detected
  /\ done.args.custom # <<>>
  /\ ~done.args.again
  /\ segments[1].text = <<"the", "Basically">>
  /\ segments[1].confidence = 80
  /\ done.ret[1] = <<TRUE, Len(BuiltinPatterns) + 1>>
  /\ segments[1].is_filler

\* the patterns of the list whose threshold the segment meets and whose
\* expression matches its normalized text, and those of them that make the
\* segment filler
TextMatches(segment) ==
  {k \in DOMAIN filler_patterns :
     /\ segment.confidence >= filler_patterns[k].confidence_threshold
     /\ search(filler_patterns[k].pattern, normalize_text(segment.text)) # None}
Accepted(segment, k) ==
  filler_patterns[k].context_sensitive =>
    validate_context(normalize_text(segment.text),
                     The(search(filler_patterns[k].pattern,
                                normalize_text(segment.text))),
                     filler_patterns[k])
Accepting(segment) == {k \in TextMatches(segment) : Accepted(segment, k)}
PastUnconditional(segment) ==
  ~empty_or_short(segment) /\ segment.confidence >= 30

\* C19 as stated: for a segment past the unconditional rules the decision
\* is made by the first pattern whose threshold is met and whose
\* expression matches (filler if it is not context-sensitive, else what
\* its validator says), and no later pattern is evaluated.
C19_FirstTextMatchDecides ==
  Detected =>
    \A k \in DOMAIN segments :
      (PastUnconditional(segments[k]) /\ TextMatches(segments[k]) # {}) =>
        LET first == SetMin(TextMatches(segments[k]))
        IN done.ret[k] = <<Accepted(segments[k], first), first>>

\* C19 as amended: for a segment past the unconditional rules the
\* decision is made by the first pattern whose threshold is met, whose
\* expression matches and, if it is context-sensitive, whose validator
\* accepts: the segment is filler and no later pattern is evaluated; a
\* pattern that its validator rejects does not end the evaluation, and
\* with no accepting pattern the whole list is evaluated and the
\* non-speech ratio decides.
C19_FirstAcceptingPatternDecides ==
  Detected =>
    \A k \in DOMAIN segments :
      PastUnconditional(segments[k]) =>
        IF Accepting(segments[k]) # {}
        THEN done.ret[k] = <<TRUE, SetMin(Accepting(segments[k]))>>
        ELSE done.ret[k] =
               <<is_mostly_non_speech(normalize_text(segments[k].text)),
                 Len(filler_patterns)>>

\* "oh the the": the validator of the 'oh' pattern rejects three words,
\* the word repetition, the 19th pattern, decides
C19_Witness ==
  /\ Detected
  /\ segments[1].text = <<"oh", "the", "the">>
  /\ segments[1].confidence = 95
  /\ duration(segments[1]) = 100
  /\ SetMin(TextMatches(segments[1])) = 6
  /\ done.ret[1] = <<TRUE, 19>>

\* C20: after detect, is_filler of every segment is true exactly when the
\* rules make its text, duration and confidence filler, whatever is_filler
\* was before the call.
C20_FlagIsTheDecision ==
  Detected =>
    \A k \in DOMAIN segments :
      segments[k].is_filler <=>
        is_filler_segment(filler_patterns, segments[k])[1]

(************************ claims about the measures *************************)
Counted == done.op = "get_filler_statistics"

\* the filler segments and the time they take, counted one by one
FillerIndices == {k \in DOMAIN segments : segments[k].is_filler}
FillerTime ==
  LET UpTo[k \in 0 .. Len(segments)] ==
        IF k = 0 THEN 0
        ELSE UpTo[k - 1]
             + (IF segments[k].is_filler
                THEN segments[k].end_time - segments[k].start_time ELSE 0)
  IN UpTo[Len(segments)]

\* the transcript of test_filler_statistics: 1 s, 1 s and 2 s in 4 s, the
\* one in the middle filler
StatisticsOfTheTest ==
  /\ Len(segments) = 3
  /\ [k \in 1 .. 3 |-> segments[k].end_time - segments[k].start_time]
       = <<100, 100, 200>>
  /\ FillerIndices = {2}
  /\ transcript_duration = 400

\* C21: get_filler_statistics returns filler_percentage = 100 * (filler
\* segments) / (segments) and filler_time_percentage = 100 * (time of the
\* filler segments) / (duration of the transcript), each 0 when its
\* denominator is 0; for segments of 1 s, 1 s and 2 s in 4 s with the middle
\* one filler they are 33.33 (within 0.1) and 25
C21_Percentages ==
  Counted =>
    LET p == done.ret.filler_percentage
        t == done.ret.filler_time_percentage
    IN /\ p.den > 0 /\ t.den > 0
       /\ IF Len(segments) = 0 THEN p.num = 0
          ELSE p.num * Len(segments) = 100 * Cardinality(FillerIndices) * p.den
       /\ IF transcript_duration = 0 THEN t.num = 0
          ELSE t.num * transcript_duration = 100 * FillerTime * t.den
       /\ StatisticsOfTheTest =>
            /\ 3323 * p.den <= 100 * p.num /\ 100 * p.num <= 3343 * p.den
            /\ t.num = 25 * t.den

C21_Witness ==
  /\ Counted
  /\ StatisticsOfTheTest
  /\ done.ret.filler_segments = 1
  /\ done.ret.filler_duration = 100

\* the sample transcript of 10 s, whatever has been flagged and deleted in it
IsSample ==
  /\ [k \in DOMAIN segments |->
        [segments[k] EXCEPT !.is_filler = FALSE, !.is_deleted = FALSE]]
       = SampleTranscript
  /\ transcript_duration = 1000

\* no segment of the sample is constructed as filler, so a flag in it shows
\* that detect has run
DetectHasRun == FillerIndices # {}
DeletedIndices == {k \in DOMAIN segments : segments[k].is_deleted}

\* C22 as stated: on the sample transcript detect marks exactly "um", "uh"
\* and "you know" (segments 2, 4 and 7) as filler, and afterwards the
\* estimated duration is 7.5 s and the compression ratio about 0.25 (within
\* 0.05)
C22_SampleGivesThreeFillers ==
  IsSample =>
    /\ done.op = "detect_filler_words" => FillerIndices = {2, 4, 7}
    /\ (DetectHasRun /\ done.op = "estimate_output_duration") => done.ret = 750
    /\ (DetectHasRun /\ done.op = "calculate_compression_ratio") =>
         /\ AtMost(Fraction(20, 100), done.ret)
         /\ AtMost(done.ret, Fraction(30, 100))

\* C22: on the sample transcript detect marks exactly "uh" (0.2 s, shorter
\* than min_segment_duration) and "you know" (segments 4 and 7) as filler;
\* "um" at confidence 0.7 stays unmarked; afterwards the estimated duration
\* is 10 s and the compression ratio 0 while no segment is deleted, and
\* 9.5 s and 0.05 once the filler segments are removed
C22_SampleGivesTwoFillers ==
  IsSample =>
    /\ done.op = "detect_filler_words" => FillerIndices = {4, 7}
    /\ DetectHasRun => FillerIndices = {4, 7} /\ DeletedIndices \in {{}, {4, 7}}
    /\ (DetectHasRun /\ done.op = "estimate_output_duration") =>
         done.ret = IF DeletedIndices = {} THEN 1000 ELSE 950
    /\ (DetectHasRun /\ done.op = "calculate_compression_ratio") =>
         Same(done.ret, IF DeletedIndices = {} THEN Fraction(0, 1)
                        ELSE Fraction(5, 100))

C22_Witness ==
  /\ IsSample
  /\ FillerIndices = {4, 7}
  /\ DeletedIndices = {}
  /\ done.op = "calculate_compression_ratio"
  /\ done.ret.num = 0

\* the time of the segments that are not deleted, counted one by one
KeptTime ==
  LET UpTo[k \in 0 .. Len(segments)] ==
        IF k = 0 THEN 0
        ELSE UpTo[k - 1]
             + (IF segments[k].is_deleted THEN 0
                ELSE segments[k].end_time - segments[k].start_time)
  IN UpTo[Len(segments)]

\* C23: estimate_output_duration returns the sum of end_time - start_time
\* over exactly the segments that are not deleted, and
\* calculate_compression_ratio returns 1 - estimate / duration kept within
\* [0, 1], or 0 when the duration is not positive
C23_EstimateAndRatio ==
  /\ done.op = "estimate_output_duration" => done.ret = KeptTime
  /\ done.op = "calculate_compression_ratio" =>
       /\ done.ret.den > 0
       /\ IF transcript_duration <= 0 THEN done.ret.num = 0
          ELSE IF KeptTime >= transcript_duration THEN done.ret.num = 0
          ELSE IF KeptTime <= 0 THEN done.ret.num = done.ret.den
          ELSE done.ret.num * transcript_duration
                 = (transcript_duration - KeptTime) * done.ret.den

\* a deleted segment and a kept one in a transcript shorter than what is
\* kept: the ratio is held at 0
C23_Witness ==
  /\ done.op = "calculate_compression_ratio"
  /\ DeletedIndices # {}
  /\ 0 < transcript_duration
  /\ transcript_duration < KeptTime
  /\ done.ret.num = 0

(********************* claims about the trim pipeline **********************)
\* what trim did, by kind
Did(kind) == {k \in DOMAIN trail : trail[k].kind = kind}
LastDid(kind) == trail # <<>> /\ trail[Len(trail)].kind = kind

Over == trim_pc = "done"
Succeeded == Over /\ outcome.result = "returned"
Raised == Over /\ outcome.result = "raised"

\* the ranges that trim computes at line 55
ActiveRanges == merged(Collect(segments))

\* C24: trim returns the output path only after the fast concat exited
\* with 0 or a codec attempt succeeded; with no active range, no clip or
\* every codec failed it raises, and it ends in exactly one of the two ways
C24_SuccessOnlyAfterConcatOrEncode ==
  /\ Over <=> outcome.result # "running"
  /\ outcome.result \in {"running", "returned", "raised"}
  /\ Succeeded =>
       /\ ActiveRanges # <<>>
       /\ \/ Did("succeeded") # {} /\ LastDid("fast trim")
          \/ /\ Did("subclip") # {}
             /\ LastDid("encoded")
             /\ Cardinality(Did("failed")) < Len(candidate_codecs)

\* the fast trim failed, the fallback encoded with the second codec and
\* trim returned
C24_Witness ==
  /\ Succeeded
  /\ Did("fallback") # {}
  /\ Did("failed") # {}
  /\ LastDid("encoded")

\* C25: when the merged active ranges are empty, trim raises and starts no
\* later stage: it never enters the fast trim or the fallback, launches no
\* cut or concat, builds no subclip and tries no codec
C25_NoRangeNoStage ==
  ActiveRanges = <<>> =>
    /\ trim_pc \in {"idle", "called", "load", "ranges", "done"}
    /\ trail = <<>>
    /\ media.temp_dir = "none" /\ media.clips = <<>> /\ media.output_file = "absent"
    /\ Over => Raised
    /\ (Over /\ media.video = "open") => outcome.error \in {"no ranges", "callback"}

\* every segment of the transcript is deleted and trim has raised for it
C25_Witness ==
  /\ segments # <<>>
  /\ ActiveRanges = <<>>
  /\ Raised
  /\ outcome.error = "no ranges"

\* the fallback was entered after the fast trim; the fast trim failed in
\* one of the ways that the claim names
FallbackRan == Did("fallback") # {}
FastTrimFailed ==
  trim_local.fast_error
    \in {Some("cut failed"), Some("no segments"), Some("concat failed")}

\* C26: with prefer_fast_trim, the fallback runs only if the fast trim did
\* not complete and always if a cut failed, no segment was produced or both
\* concats failed, and then trim returns exactly if the fallback encoded;
\* without prefer_fast_trim no cut and no concat is launched
C26_FallbackIffFastTrimFailed ==
  /\ config.prefer_fast_trim =>
       /\ FallbackRan => Did("fast trim") = {}
       /\ (Over /\ FastTrimFailed) => FallbackRan
       /\ (Over /\ FallbackRan) => (Succeeded <=> LastDid("encoded"))
  /\ ~config.prefer_fast_trim => Did("cut") \cup Did("concat") = {}

\* the positions of trail before and after p where trim did `kind` for
\* candidate k
Earlier(p, kind, k) ==
  {q \in 1 .. p - 1 : trail[q].kind = kind /\ trail[q].range = k}
Later(p, kind) == {q \in p + 1 .. Len(trail) : trail[q].kind = kind}

\* C27: the encode tries the candidates in the order of _candidate_codecs
\* (the GPU codecs first if they are preferred, libx264 last), tries
\* candidate k + 1 only after candidate k failed and its partial output was
\* removed, tries none after one has written the output, and raises only
\* when every candidate failed, with the error of the last one
C27_CodecsInOrderUntilOneSucceeds ==
  /\ candidate_codecs[Len(candidate_codecs)] = "libx264"
  /\ config.prefer_gpu_encoding =>
       candidate_codecs = config.gpu_codecs \o <<"libx264">>
  /\ \A p \in Did("encode") :
       /\ trail[p].codec = candidate_codecs[trail[p].range]
       /\ \A q \in Later(p, "encode") : trail[q].range > trail[p].range
       /\ trail[p].range > 1 =>
            /\ Earlier(p, "failed", trail[p].range - 1) # {}
            /\ Earlier(p, "encode", trail[p].range - 1) # {} =>
                 Earlier(p, "removed", trail[p].range - 1) # {}
  /\ \A p \in Did("encoded") : Later(p, "encode") = {}
  /\ (Raised /\ Did("write") # {} /\ ~LastDid("encoded")) =>
       /\ Cardinality(Did("failed")) = Len(candidate_codecs)
       /\ LastDid("failed") \/ LastDid("removed")
       /\ \A p \in Did("failed") :
            Later(p, "failed") = {} => outcome.error = trail[p].codec

\* C28: when trim has returned or raised after the video was opened, the
\* video, every subclip built and the concatenated clip are closed
C28_EverythingClosedAtExit ==
  (Over /\ media.video # "none") =>
    /\ media.video = "closed"
    /\ \A k \in DOMAIN media.clips : media.clips[k] = "closed"
    /\ media.final_video # "open"

\* the fast trim is under way: from mkdtemp to its return or its exception
InFastTrim == trim_pc \in {"cut", "list", "concat", "concat_retry", "fast_cleanup"}

\* C29: the temporary directory of a fast trim is gone when the fast trim
\* has ended, however it ended
C29_TempDirGoneAfterFastTrim ==
  media.temp_dir = "exists" => InFastTrim

\* the stages of the pipeline that the claim names
Stages == {"cut", "concat", "subclip", "concatenate", "encode"}

\* C30: once the dialog is cancelled no stage is started: no cut, no
\* concat, no clip is built and no codec is tried after the cancel.  (No
\* step ends a process that was launched: the code kills none.)
C30_NoStageAfterCancel ==
  cancelled =>
    \A p \in cancel_at + 1 .. Len(trail) : trail[p].kind \notin Stages

\* _write_video_with_progress was called and has returned or raised
WriteReturned == Did("write") # {} /\ trim_pc \in {"cleanup", "done"}

\* C31: when _write_video_with_progress has returned or raised, the
\* monitor thread, if one was started, has ended: it is not inside a
\* progress callback and will call none
C31_MonitorRetiredAtReturn ==
  WriteReturned => media.thread \in {"none", "terminated"}

\* the positions of trail where trim did `kind` for range or candidate k
DidFor(kind, k) == {p \in Did(kind) : trail[p].range = k}

\* the loops of trim are bounded: one cut per active range at most, two
\* concats at most, one attempt per candidate codec at most
BoundedWork ==
  /\ \A k \in 1 .. Len(ActiveRanges) : Cardinality(DidFor("cut", k)) <= 1
  /\ Cardinality(Did("cut")) <= Len(ActiveRanges)
  /\ Cardinality(Did("concat")) <= 2
  /\ \A k \in DOMAIN candidate_codecs : Cardinality(DidFor("encode", k)) <= 1
  /\ Cardinality(Did("encode")) <= Len(candidate_codecs)

\* C32: every trim ends, returning the output path or raising, after at
\* most one cut per active range, two concats and one attempt per candidate
\* codec; and once progress_active is cleared the monitor thread ends
C32_TrimTerminates ==
  /\ <>Over
  /\ []BoundedWork
  /\ (media.monitor = "stopped") ~> (media.thread = "terminated")

\* trim is over after a cut, two concats that failed and two codec
\* attempts in the fallback, and its monitor thread has ended
C32_Witness ==
  /\ Over
  /\ Did("cut") # {}
  /\ Cardinality(Did("concat")) = 2
  /\ Cardinality(Did("encode")) = 2
  /\ media.thread = "terminated"

\* the concats launched, in the order of the launches
Concats == [k \in 1 .. Cardinality(Did("concat")) |->
              CHOOSE p \in Did("concat") :
                Cardinality({q \in Did("concat") : q <= p}) = k]

\* the concat launched at position p of the trail exited with 0
ExitedWithZero(p) == p < Len(trail) /\ trail[p + 1].kind = "succeeded"

\* the fast trim has ended in or after its concat stage: it returned, or
\* raised after a concat was called
ConcatStageFailed ==
  \/ trim_local.fast_error \in {Some("concat failed"), Some("concat raised")}
  \/ trim_local.fast_error = Some("callback") /\ Did("succeeded") # {}

\* C33: the first concat of a fast trim has the bitstream filter; a second
\* one is launched only after the first exited with nonzero, has no filter
\* and is the last; the fast trim returns if one of them exited with 0 and
\* fails in the concat stage only when both were launched and both failed
C33_ConcatRetriedOnceWithoutFilter ==
  /\ Len(Concats) <= 2
  /\ Len(Concats) >= 1 => trail[Concats[1]].codec = "bsf"
  /\ Len(Concats) = 2 =>
       /\ trail[Concats[2]].codec = "plain"
       /\ ~ExitedWithZero(Concats[1])
  /\ (Did("succeeded") # {} /\ ~InFastTrim) => Did("fast trim") # {}
  /\ ConcatStageFailed =>
       /\ Len(Concats) = 2
       /\ \A k \in 1 .. 2 : ~ExitedWithZero(Concats[k])

\* the windows of the cuts that the fast trim has launched so far
Issued == trim_local.cut_windows

\* C34: the cuts launched by the fast trim do not overlap: each has a
\* positive length and starts 20 ms or more after the end of every cut
\* launched before it, whatever start-sorted ranges the fast trim is given
C34_CutsApart ==
  \A j \in DOMAIN Issued :
    /\ Issued[j][1] < Issued[j][2]
    /\ \A i \in 1 .. j - 1 : Issued[i][2] + 2 <= Issued[j][1]

\* the subclips built, in the order they were built
IsSubclip(e) == e.kind = "subclip"
Subclips == SelectSeq(trail, IsSubclip)

\* a range cut to the video
ClampedRange(range) ==
  <<IF range[1] < 0 THEN 0 ELSE range[1],
    IF range[2] > transcript_duration THEN transcript_duration ELSE range[2]>>
Collapsed(range) == ClampedRange(range)[2] <= ClampedRange(range)[1]

\* the ranges for which the loop of the fallback built a clip, and those
\* it has handled: it built a clip or none
Clipped == {trail[p].range : p \in Did("subclip")}
Handled == Clipped \cup {trail[p].range : p \in Did("no clip")}

\* the loop of the fallback is behind trim
LoopLeft == trim_pc # "clip" /\ Handled # {}

\* C35: every subclip of the fallback spans [max(0, start), min(duration,
\* end)] of its range and has a positive length; a range that collapses
\* gives no clip and does not end the loop, which handles every range;
\* with no clip at all trim raises before it concatenates or encodes
C35_SubclipsClampedOrSkipped ==
  /\ Len(trim_local.clip_spans) = Len(Subclips)
  /\ Did("concatenate") \cup Did("write") \cup Did("encode") # {} =>
       Clipped # {}
  /\ Handled # {} =>
    LET ranges == ActiveRanges
    IN /\ \A k \in DOMAIN Subclips :
            /\ trim_local.clip_spans[k] = ClampedRange(ranges[Subclips[k].range])
            /\ trim_local.clip_spans[k][1] < trim_local.clip_spans[k][2]
       /\ \A k \in Clipped : ~Collapsed(ranges[k])
       /\ LoopLeft => Handled = DOMAIN ranges
       /\ (LoopLeft /\ Clipped = {} /\ trim_pc # "concatenate") =>
            /\ Raised
            /\ outcome.error = "no clips"
            /\ LastDid("no clip")

\* the second range lies behind the end of the video: it gave no clip, the
\* first one did and trim went on to concatenate
C35_Witness ==
  /\ \E k \in Handled : Collapsed(ActiveRanges[k])
  /\ Did("subclip") # {}
  /\ Did("concatenate") # {}

\* no range gave a clip and trim has raised for it
NoClipAtAll ==
  /\ ActiveRanges # <<>>
  /\ Raised
  /\ outcome.error = "no clips"

(************************ claims about the tracker *************************)
\* the operation is completed or failed
Terminal(id) == Known(id) /\ operations[id].status \in {COMPLETED, FAILED}

\* what the claim says stays as it is
Kept(info) ==
  <<info.status, info.progress_percent, info.result, info.error_message>>

\* a call of update, complete, fail or cancel for a terminal operation
\* leaves its record as it is
TerminalStays ==
  \A id \in Ids :
    (/\ Terminal(id)
     /\ ACall
     /\ last'.id = id
     /\ last'.op \in {"update", "complete", "fail", "cancel"}) =>
      /\ id \in DOMAIN operations'
      /\ Kept(operations'[id]) = Kept(operations[id])

\* a completed operation is at 100 percent
CompletedIsFull ==
  \A id \in DOMAIN operations :
    operations[id].status = COMPLETED => operations[id].progress_percent = 100

\* C36: the statuses completed and failed are absorbing: no later update,
\* complete, fail or cancel of the id changes its status, progress_percent,
\* result or error_message, and a completed operation is at 100 percent
C36_TerminalIsAbsorbing == [][TerminalStays]_vars /\ []CompletedIsFull

\* the threads started for operation id that have not begun their
\* callback: what they will observe is the record as it is when they run
Waiting(id) == {t \in BagToSet(threads) : t.id = id /\ t.pc = "started"}

\* a call changes the record of id in place: the ProgressInfo that the
\* threads started before were given is the one that is written
ChangedInPlace(id) ==
  /\ ACall
  /\ last'.id = id
  /\ last'.op \in {"update", "complete", "fail", "cancel"}
  /\ Known(id)
  /\ operations'[id] # operations[id]

\* C37: the invocations for one operation observe its changes in order,
\* each the state as of the change it was started for: when a change is
\* written, every invocation started for an earlier change of the
\* operation has begun to run
C37_NotifiedInOrder ==
  [][\A id \in Ids : ChangedInPlace(id) => Waiting(id) = {}]_vars

(************************* claims about the editor *************************)
\* the words of segment s as they were recognised
Recognised(s) ==
  [k \in DOMAIN segments[s].word_timings |-> segments[s].word_timings[k].word]

\* the words of segment s that the editor has deleted: its text is the
\* recognised text without that one word
DeletedWords(s) ==
  {k \in DOMAIN segments[s].word_timings :
     segments[s].text = RemoveAt(Recognised(s), k)}

\* no other segment of the timeline is spoken during segment s
Alone(s) ==
  \A o \in DOMAIN segments \ {s} :
    \/ segments[o].end_time <= segments[s].start_time
    \/ segments[s].end_time <= segments[o].start_time

\* the range r contains the time of word k of segment s
Covers(r, s, k) ==
  /\ r[1] <= segments[s].word_timings[k].start_time
  /\ segments[s].word_timings[k].end_time <= r[2]

\* C38: when a word of a segment with word timings was deleted in the
\* editor, no range that get_active_time_ranges returns contains the time
\* of that word
C38_DeletedWordIsCut ==
  done.op = "get_active_time_ranges" =>
    \A s \in DOMAIN segments :
      (~segments[s].is_deleted /\ Alone(s)) =>
        \A k \in DeletedWords(s) :
          \A n \in DOMAIN done.ret : ~Covers(done.ret[n], s, k)

\* the text that was shown is saved as it is
SavedAsShown ==
  /\ done.op = "display_transcript"
  /\ done'.op = "update_from_text"
  /\ done'.args = done.ret

\* the text that was saved is saved once more
SavedAgain ==
  /\ done.op = "update_from_text"
  /\ done'.op = "update_from_text"
  /\ done'.args = done.args

\* C39: saving the text that display_transcript has shown leaves the text
\* of every segment as it was, and saving a text a second time leaves the
\* timeline as the first save made it
C39_ShownTextParsesBack ==
  [][/\ SavedAsShown =>
          \A k \in DOMAIN segments : segments'[k].text = segments[k].text
     /\ SavedAgain => segments' = segments]_vars

(************************* claims about the silence ************************)
\* the spots that the last call reported
Reported ==
  CASE done.op = "detect_empty_spots" -> done.ret
    [] done.op = "get_filler_statistics" -> done.ret.empty_spots
    [] OTHER -> <<>>

\* the spot and the segment have time in common
Overlap(spot, segment) ==
  spot[1] < segment.end_time /\ segment.start_time < spot[2]

\* C40: every spot reported by detect_empty_spots is 0.5 s long or longer,
\* the spots are reported in ascending order, and no spot has time in
\* common with a segment of the timeline
C40_EmptySpotsAreSilent ==
  /\ \A n \in DOMAIN Reported :
       /\ Reported[n][2] - Reported[n][1] >= 50
       /\ \A k \in DOMAIN segments : ~Overlap(Reported[n], segments[k])
  /\ \A n \in 1 .. Len(Reported) - 1 : Reported[n][2] <= Reported[n + 1][1]

====
